---------------------------- MODULE Spec2Model ----------------------------
(* A model of the kikidoko crawler's reconciliation core:                  *)
(*   - the upsert engine (firestore_client.upsert_equipment and the        *)
(*     indexed / write-only variant of main.py),                           *)
(*   - the registry matcher's decision rule (eqnet_backfill.decide_match). *)
(* The document store is a map from document ids to sparse field maps.     *)
EXTENDS Integers, Sequences, FiniteSets, TLC

----------------------------------------------------------------------------
(* Bounds of the model *)

\* number of upsert_equipment writes of one single-writer history
MaxWrites == 3
\* records of one crawl batch (main.py)
MaxBatch == 2
\* records each of the two concurrent writers processes
MaxRaceRecs == 1
\* length of the scored candidate list given to decide_match
MaxCands == 2

----------------------------------------------------------------------------
(* Program constants *)

\* retries of _upsert_with_retry (the default of its parameter)
Retries == 3
\* attempts of _build_existing_index per org_name
IndexAttempts == 3

Min(a, b) == IF a <= b THEN a ELSE b

\* line 103 of main.py: wait = min(60, 5 * (attempt + 1)), for attempt = k
RetryWait(k) == Min(60, 5 * (k + 1))

----------------------------------------------------------------------------
(* Records and documents *)

\* the fields of EquipmentRecord the upsert engine reads, plus one payload field
Fields == {"equipment_id", "dedupe_key", "org_name", "fee_note"}

EqIds == {"e1", "e/2"}
DedupeKeys == {"k1", "k2"}
OrgNames == {"o1", "o2"}
FeeNotes == {"f1"}

\* EquipmentRecord: every field is a string, "" when not supplied
EquipmentRecord ==
  [equipment_id : EqIds \cup {""}, dedupe_key : DedupeKeys \cup {""},
   org_name : OrgNames \cup {""}, fee_note : FeeNotes \cup {""}]

\* ids the store assigns to collection.document() (random in the store: a
\* caller can get any id not in use); the first n of them
AutoIdsUpTo(n) == {"a" \o ToString(i) : i \in 1..n}

\* enough ids for the seed document and every attempt of every record of a batch
NumAutoIds == 1 + MaxBatch * (Retries + 1) + MaxWrites + 2 * MaxRaceRecs

AutoIds == AutoIdsUpTo(NumAutoIds)

\* document ids in ascending order of document name (the store's default query order)
DocOrder ==
  [i \in 1..NumAutoIds |-> "a" \o ToString(i)] \o <<"e1", "e_2", "k1", "k2">>

Rank(d) == CHOOSE i \in 1..Len(DocOrder) : DocOrder[i] = d

\* EquipmentRecord.to_firestore: the dict of the fields that are neither "" nor None
to_firestore(record) ==
  [f \in {g \in Fields : record[g] # ""} |-> record[f]]

\* dict.get(field) of a stored document ("" stands for a missing field)
Get(doc, f) == IF f \in DOMAIN doc THEN doc[f] ELSE ""

\* mutant: the stored value wins over the payload's
MergeKeepOld(old, data) == old @@ data

\* reference.set(data, merge=True) on an existing document: fields of data win
Merge(old, data) == data @@ old

\* collection.where(field, "==", value): ids of the matching documents
Where(st, f, v) == {d \in DOMAIN st : Get(st[d], f) = v}

\* .limit(1).stream() then next(existing, None): first match in document-name order
Limit1(S) == CHOOSE d \in S : \A e \in S : Rank(d) <= Rank(e)

EmptyStore == << >>

\* reference.set(data, merge=True): merge into the document, creating it if missing
SetMerge(st, d, data) ==
  IF d \in DOMAIN st THEN [st EXCEPT ![d] = Merge(st[d], data)]
  ELSE (d :> data) @@ st

\* reference.set(data): replace the document
SetDoc(st, d, data) == (d :> data) @@ [e \in DOMAIN st \ {d} |-> st[e]]

----------------------------------------------------------------------------
(* firestore_client.upsert_equipment *)

\* _safe_doc_id: value.replace("/", "_")
SafeDocIdTable == [v \in EqIds \cup DedupeKeys \cup {""} |-> IF v = "e/2" THEN "e_2" ELSE v]

_safe_doc_id(value) == SafeDocIdTable[value]

\* the (truthy) first of a or b, as Python's "a or b" on strings
Or(a, b) == IF a # "" THEN a ELSE b

\* lines 27-33: the first document whose equipment_id is the record's, if any
LookupById(st, record) ==
  IF record.equipment_id # "" /\ Where(st, "equipment_id", record.equipment_id) # {}
  THEN {Limit1(Where(st, "equipment_id", record.equipment_id))} ELSE {}

\* lines 38-42: the first document whose dedupe_key is the record's, if any
LookupByKey(st, record) ==
  IF record.dedupe_key # "" /\ Where(st, "dedupe_key", record.dedupe_key) # {}
  THEN {Limit1(Where(st, "dedupe_key", record.dedupe_key))} ELSE {}

\* mutant: the new document's id is derived from the record's keys
KeyedDocumentRef(record, newId) ==
  IF Or(record.equipment_id, record.dedupe_key) # ""
  THEN _safe_doc_id(Or(record.equipment_id, record.dedupe_key)) ELSE newId

\* line 47: collection.document(), a reference with a store-assigned id
NewDocumentRef(record, newId) == newId

\* lines 48-49: the payload of a new document adopts the document id
CreatePayload(record, ref) ==
  IF record.equipment_id = ""
  THEN ("equipment_id" :> ref) @@ to_firestore(record) ELSE to_firestore(record)

\* mutant: the dedupe_key lookup runs before the equipment_id lookup
upsert_equipment_dedupe_first(st, record, newId) ==
  LET data == to_firestore(record)
      byId == LookupById(st, record)
      byKey == LookupByKey(st, record)
      ref == NewDocumentRef(record, newId)
  IN  IF byKey # {}
      THEN [store |-> SetMerge(st, Limit1(byKey), data),
            id |-> Limit1(byKey), status |-> "updated"]
      ELSE IF byId # {}
      THEN [store |-> SetMerge(st, Limit1(byId), data),
            id |-> Limit1(byId), status |-> "updated"]
      ELSE [store |-> SetDoc(st, ref, CreatePayload(record, ref)),
            id |-> ref, status |-> "created"]

\* the result of one call: the store afterwards and the returned (id, status);
\* newId is the id collection.document() would assign
upsert_equipment(st, record, newId) ==
  LET data == to_firestore(record)
      byId == LookupById(st, record)
      byKey == LookupByKey(st, record)
      ref == NewDocumentRef(record, newId)
  IN  IF byId # {}
      THEN [store |-> SetMerge(st, Limit1(byId), data),
            id |-> Limit1(byId), status |-> "updated"]
      ELSE IF byKey # {}
      THEN [store |-> SetMerge(st, Limit1(byKey), data),
            id |-> Limit1(byKey), status |-> "updated"]
      ELSE [store |-> SetDoc(st, ref, CreatePayload(record, ref)),
            id |-> ref, status |-> "created"]

----------------------------------------------------------------------------
(* main.py: the indexed / write-only upsert of the crawl driver *)

\* an empty index: {"equipment_id": {}, "dedupe_key": {}}
EmptyIndex == [equipment_id |-> << >>, dedupe_key |-> << >>]

\* index[kind][key] = ref
IndexPut(idx, kind, key, ref) == [idx EXCEPT ![kind] = (key :> ref) @@ idx[kind]]

\* lines 164-167 and 183-186: remember the written reference under the keys
IndexRemember(idx, eid, key, ref) ==
  LET withId == IF eid # "" THEN IndexPut(idx, "equipment_id", eid, ref) ELSE idx
  IN  IF key # "" THEN IndexPut(withId, "dedupe_key", key, ref) ELSE withId

\* the last document, in stream order, of a non-empty set
LastDoc(S) == CHOOSE d \in S : \A e \in S : Rank(e) <= Rank(d)

\* one successful pass of _build_existing_index over one org_name partition:
\* every streamed document is entered under its equipment_id and dedupe_key,
\* a later document of the stream replacing an earlier one under the same key
IndexPartition(idx, st, org) ==
  LET docs == Where(st, "org_name", org)
      vals(f) == {Get(st[d], f) : d \in docs} \ {""}
      part(f) == [v \in vals(f) |-> LastDoc({d \in docs : Get(st[d], f) = v})]
  IN  [equipment_id |-> part("equipment_id") @@ idx.equipment_id,
       dedupe_key |-> part("dedupe_key") @@ idx.dedupe_key]

\* sorted({record.org_name for record in records if record.org_name})
SortedOrgNames(records) ==
  LET present == {records[i].org_name : i \in DOMAIN records} \ {""}
      F[i \in 0..2] ==
        IF i = 0 THEN << >>
        ELSE IF <<"o1", "o2">>[i] \in present
             THEN Append(F[i - 1], <<"o1", "o2">>[i]) ELSE F[i - 1]
  IN  F[2]

\* _upsert_with_index with index_ready false (lines 158-168): the store write
upsert_write_only(st, record, newId) ==
  LET data == to_firestore(record)
      doc_id == _safe_doc_id(Or(record.equipment_id, record.dedupe_key))
      ref == IF doc_id # "" THEN doc_id ELSE newId
      payload == IF record.equipment_id = "" /\ doc_id = ""
                 THEN ("equipment_id" :> ref) @@ data ELSE data
  IN  [store |-> SetMerge(st, ref, payload), id |-> ref, status |-> "created",
       isNew |-> ref \notin DOMAIN st, stored_id |-> Get(payload, "equipment_id")]

\* _upsert_with_index with index_ready true (lines 170-187): the store write
upsert_indexed(st, record, idx, newId) ==
  LET data == to_firestore(record)
      byId == IF record.equipment_id # "" /\ record.equipment_id \in DOMAIN idx.equipment_id
              THEN {idx.equipment_id[record.equipment_id]} ELSE {}
      byKey == IF record.dedupe_key # "" /\ record.dedupe_key \in DOMAIN idx.dedupe_key
               THEN {idx.dedupe_key[record.dedupe_key]} ELSE {}
      found == IF byId # {} THEN byId ELSE byKey
  IN  IF found # {}
      THEN LET ref == CHOOSE d \in found : TRUE
           IN  [store |-> SetMerge(st, ref, data), id |-> ref, status |-> "updated",
                isNew |-> ref \notin DOMAIN st, stored_id |-> Get(data, "equipment_id")]
      ELSE LET payload == IF record.equipment_id = ""
                          THEN ("equipment_id" :> newId) @@ data ELSE data
           IN  [store |-> SetDoc(st, newId, payload), id |-> newId, status |-> "created",
                isNew |-> TRUE, stored_id |-> Get(payload, "equipment_id")]

\* _upsert_with_index: the store write of one call and, when the write did not
\* raise, the index afterwards
_upsert_with_index(st, record, idx, ready, newId) ==
  LET w == IF ready THEN upsert_indexed(st, record, idx, newId)
           ELSE upsert_write_only(st, record, newId)
  IN  [store |-> w.store, id |-> w.id, status |-> w.status, isNew |-> w.isNew,
       stored_id |-> w.stored_id,
       index |-> IF w.status = "created"
                 THEN IndexRemember(idx, w.stored_id, record.dedupe_key, w.id)
                 ELSE idx]

----------------------------------------------------------------------------
(* eqnet_backfill.decide_match *)

\* lowest score of the candidate lists explored
MinScore == 76
MaxScore == 100

\* mutant: a lone candidate gets margin -1
MarginLoneMinusOne(scored_candidates) ==
  IF Len(scored_candidates) > 1
  THEN scored_candidates[1].score - scored_candidates[2].score
  ELSE -1

\* lines 207-208: second_score is the runner-up's score, -1 without a runner-up;
\* margin = top score - second_score
Margin(scored_candidates) ==
  LET second_score == IF Len(scored_candidates) > 1
                      THEN scored_candidates[2].score ELSE -1
  IN  scored_candidates[1].score - second_score

\* mutant: the flag rule accepts without looking at the score
decide_match_flags_only(scored_candidates) ==
  IF scored_candidates = << >> THEN [id |-> "", confidence |-> "none"]
  ELSE LET top == scored_candidates[1]
           margin == Margin(scored_candidates)
       IN  IF top.name_exact /\ top.org_match
           THEN [id |-> top.id, confidence |-> "high"]
           ELSE IF top.score >= 92 /\ margin >= 6
           THEN [id |-> top.id, confidence |-> "high"]
           ELSE IF top.score >= 82 /\ margin >= 10
           THEN [id |-> top.id, confidence |-> "medium"]
           ELSE [id |-> "", confidence |-> "none"]

\* decide_match: (match id, confidence) of a scored, sorted candidate list
decide_match(scored_candidates) ==
  IF scored_candidates = << >> THEN [id |-> "", confidence |-> "none"]
  ELSE LET top == scored_candidates[1]
           margin == Margin(scored_candidates)
       IN  IF top.name_exact /\ top.org_match /\ top.score >= 88
           THEN [id |-> top.id, confidence |-> "high"]
           ELSE IF top.score >= 92 /\ margin >= 6
           THEN [id |-> top.id, confidence |-> "high"]
           ELSE IF top.score >= 82 /\ margin >= 10
           THEN [id |-> top.id, confidence |-> "medium"]
           ELSE [id |-> "", confidence |-> "none"]

----------------------------------------------------------------------------
(* State *)

VARIABLES
  store,         \* the "equipment" collection: document id -> stored fields
  log,           \* single-writer history: one entry per upsert_equipment call
  batch,         \* main: the normalized records of the run
  pc,            \* main: "index", "write", "done", "aborted" ("off": no run)
  orgPos,        \* main: position in the sorted org_names of the index build
  idxAttempt,    \* main: attempt of the index build for the current org_name
  index,         \* main: {equipment_id -> ref, dedupe_key -> ref}
  index_ready,   \* main: the flag _build_existing_index returned
  warned,        \* main: the "Proceeding without read checks" warning was logged
  pos,           \* main: position of the current record in the batch
  attempt,       \* main: failed attempts of the current record so far
  startStore,    \* main: the store when the current record's first attempt began
  waits,         \* main: seconds _upsert_with_retry slept for the current record
  finished,      \* main: one entry per record whose _upsert_with_retry ended
  creations,     \* main: one entry per document the run created
  wpc,           \* race: each writer's position in upsert_equipment
  wrec,          \* race: each writer's current record
  wref,          \* race: the document each writer's lookup found
  wres,          \* race: the (id, status) each writer's call returned
  wdone,         \* race: calls each writer has completed
  wover,         \* race: the writer's current call overlapped a call of the other
  cands,         \* match: the scored candidate list, sorted by score descending
  result         \* match: what decide_match returned ("pending" before the call)

upsertVars == <<log>>
mainVars == <<batch, pc, orgPos, idxAttempt, index, index_ready, warned, pos,
              attempt, startStore, waits, finished, creations>>
raceVars == <<wpc, wrec, wref, wres, wdone, wover>>
matchVars == <<cands, result>>

\* no crawl run in this specification
MainOff ==
  /\ batch = << >> /\ pc = "off" /\ orgPos = 0 /\ idxAttempt = 0
  /\ index = EmptyIndex /\ index_ready = FALSE /\ warned = FALSE /\ pos = 0
  /\ attempt = 0 /\ startStore = EmptyStore /\ waits = << >>
  /\ finished = << >> /\ creations = {}

UpsertOff == log = << >>

Writers == {"w1", "w2"}

NoRecord == [equipment_id |-> "", dedupe_key |-> "", org_name |-> "", fee_note |-> ""]
NoResult == [id |-> "", status |-> ""]

\* no concurrent writers in this specification
RaceOff ==
  /\ wpc = [w \in Writers |-> "off"] /\ wrec = [w \in Writers |-> NoRecord]
  /\ wref = [w \in Writers |-> ""] /\ wres = [w \in Writers |-> NoResult]
  /\ wdone = [w \in Writers |-> 0] /\ wover = [w \in Writers |-> FALSE]

\* no matcher call in this specification
MatchOff == cands = << >> /\ result = [id |-> "", confidence |-> "off"]

VARIABLES
  data_name,        \* build_updates: the name of the document (data["name"])
  scored,           \* build_updates: score_candidate's results, in pool order
  candidate_limit,  \* build_updates: the candidate_limit argument
  updates           \* build_updates: the returned updates (<< >> before the call)

updVars == <<data_name, scored, candidate_limit, updates>>

\* no build_updates call in this specification
UpdOff ==
  data_name = "" /\ scored = << >> /\ candidate_limit = 0 /\ updates = << >>

\* document keys of the scanned collection: 1..MaxKey, in key order
MaxKey == 3
\* largest page size explored
MaxPage == 2
\* largest --read-max-retries explored
MaxRetries == 2
\* inserts and deletes by other writers during one scan
MaxMut == 2
\* failed page reads during one scan
MaxFails == 3

VARIABLES
  scanner,      \* "backfill" (iter_collection_docs) or "eqnet" (iter_documents)
  page_size,    \* the page_size argument
  max_retries,  \* the max_retries argument (iter_collection_docs only)
  coll,         \* keys of the documents now in the collection
  stable,       \* keys of the documents in the collection since the scan began
  last_doc,     \* key of the cursor document, 0 for None
  sattempt,     \* the attempt variable of the retry loop of the current page
  spc,          \* "read", "done" (generator exhausted), "raised" ("off": no scan)
  yielded,      \* keys yielded so far, in order
  psleeps,      \* seconds slept by the retry loop of the current page
  pfails,       \* exceptions of the stream calls of the current page
  lastExc,      \* the last exception caught on the current page
  pageLog,      \* one entry per page read that succeeded
  mutations,    \* inserts and deletes so far
  nfails        \* failed page reads so far

scanVars == <<scanner, page_size, max_retries, coll, stable, last_doc, sattempt,
              spc, yielded, psleeps, pfails, lastExc, pageLog, mutations, nfails>>

Keys == 1..MaxKey

NoExc == [class |-> "", phrases |-> {}]

\* no scan in this specification
ScanOff ==
  /\ scanner = "off" /\ page_size = 0 /\ max_retries = 0 /\ coll = {}
  /\ stable = {} /\ last_doc = 0 /\ sattempt = 0 /\ spc = "off"
  /\ yielded = << >> /\ psleeps = << >> /\ pfails = 0 /\ lastExc = NoExc
  /\ pageLog = << >> /\ mutations = 0 /\ nfails = 0

\* documents one backfill scan yields
MaxDocs == 4
\* largest --limit explored (0: no limit)
MaxLimit == 3
\* largest --batch-size explored
MaxBatchSize == 2

VARIABLES
  prog,        \* "backfill" (backfill.run_backfill) or "eqnet" (eqnet_backfill.run_backfill)
  limit,       \* args.limit, 0 for no limit
  batch_size,  \* args.batch_size
  dry_run,     \* args.dry_run
  rdocs,       \* what each document of the scan does to the loop body, in scan order
  total,       \* documents taken from the scan (total, in eqnet_backfill processed)
  updated,     \* the updated counter
  skipped,     \* the skipped counter
  errors,      \* the errors counter
  pending,     \* updates in the batch that is being filled
  commits,     \* the size of every batch committed, in order
  rpc          \* "loop", "flush" (loop left), "done", "raised" ("off": no run)

runVars == <<prog, limit, batch_size, dry_run, rdocs, total, updated, skipped,
             errors, pending, commits, rpc>>

\* no backfill run in this specification
RunOff ==
  /\ prog = "off" /\ limit = 0 /\ batch_size = 0 /\ dry_run = FALSE
  /\ rdocs = << >> /\ total = 0 /\ updated = 0 /\ skipped = 0 /\ errors = 0
  /\ pending = 0 /\ commits = << >> /\ rpc = "off"

\* longest string given to clean_text, in characters and entity names
MaxLen == 4

VARIABLES
  value,    \* clean_text: the string it is first applied to
  cleaned,  \* clean_text: the results of the applications so far, in order
  tpc       \* clean_text: "run" ("off": no application)

textVars == <<value, cleaned, tpc>>

\* no clean_text application in this specification
TextOff == value = << >> /\ cleaned = << >> /\ tpc = "off"

VARIABLES
  args,    \* a function call: the arguments it is given
  ret,     \* a function call: what it returned (<< >> before it returns)
  called   \* a function call: it has returned

callVars == <<args, ret, called>>

\* no function call in this specification
CallOff == args = << >> /\ ret = << >> /\ called = FALSE

VARIABLES
  qstore,     \* comparison: the store written by upsert_equipment
  istore,     \* comparison: the store written by _upsert_with_index
  rindex,     \* comparison: the index of _upsert_with_index
  records,    \* comparison: the records of the batch
  rnext,      \* comparison: position of the next record
  decisions   \* comparison: per record, what either upsert returned and wrote

refVars == <<qstore, istore, rindex, records, rnext, decisions>>
\* no comparison in this specification
RefOff ==
  /\ qstore = << >> /\ istore = << >> /\ rindex = << >>
  /\ records = << >> /\ rnext = 0 /\ decisions = << >>

\* the variables of the later specifications, and their value in the others
lateVars == <<callVars, refVars>>
LateOff == CallOff /\ RefOff

\* the variables of the backfill programs, and their value in the
\* specifications of the crawler
extVars == <<updVars, scanVars, runVars, textVars, lateVars>>
ExtOff == UpdOff /\ ScanOff /\ RunOff /\ TextOff /\ LateOff

\* the variables of the crawler, and their value in the specifications of
\* the backfill programs
crawlVars == <<store, upsertVars, mainVars, raceVars, matchVars>>
CrawlOff == store = EmptyStore /\ UpsertOff /\ MainOff /\ RaceOff /\ MatchOff

vars == <<crawlVars, extVars>>

\* records a single writer hands to upsert_equipment (one organisation)
UpsertRecords == {r \in EquipmentRecord : r.org_name = "o1"}

Init ==
  /\ store = EmptyStore
  /\ log = << >>
  /\ MainOff /\ RaceOff /\ MatchOff /\ ExtOff

\* one call of upsert_equipment by the single writer
Upsert(record, newId) ==
  /\ Len(log) < MaxWrites
  /\ newId \notin DOMAIN store
  /\ LET res == upsert_equipment(store, record, newId)
     IN  /\ store' = res.store
         /\ log' = Append(log,
              [record |-> record, id |-> res.id, status |-> res.status,
               before |-> store])
  /\ UNCHANGED <<mainVars, raceVars, matchVars, extVars>>

Next == \E record \in UpsertRecords, newId \in AutoIdsUpTo(MaxWrites) : Upsert(record, newId)

Spec == Init /\ [][Next]_vars

----------------------------------------------------------------------------
(* The crawl run of main.main (not a dry run) *)

\* records of a crawl batch
MainRecords == {r \in EquipmentRecord : r.fee_note = "f1"}

\* stores an earlier run left behind: empty, or one document of an earlier write
SeedRecords ==
  {[equipment_id |-> "e1", dedupe_key |-> "k1", org_name |-> "o1", fee_note |-> "f1"],
   [equipment_id |-> "", dedupe_key |-> "k2", org_name |-> "o2", fee_note |-> ""]}

SeedStores ==
  {EmptyStore} \cup {upsert_equipment(EmptyStore, r, "a1").store : r \in SeedRecords}

Batches == UNION {[1..n -> MainRecords] : n \in 1..MaxBatch}

InitMain ==
  /\ store \in SeedStores
  /\ UpsertOff
  /\ batch \in Batches
  /\ pc = "index" /\ orgPos = 1 /\ idxAttempt = 0
  /\ index = EmptyIndex /\ index_ready = FALSE /\ warned = FALSE
  /\ pos = 1 /\ attempt = 0 /\ startStore = store /\ waits = << >>
  /\ finished = << >> /\ creations = {}
  /\ RaceOff /\ MatchOff /\ ExtOff

orgNames == SortedOrgNames(batch)

\* lines 125-135: the stream of one org_name partition succeeds
IndexAttemptOk ==
  /\ pc = "index" /\ orgPos <= Len(orgNames)
  /\ index' = IndexPartition(index, store, orgNames[orgPos])
  /\ orgPos' = orgPos + 1 /\ idxAttempt' = 0
  /\ UNCHANGED <<store, log, batch, pc, index_ready, warned, pos, attempt,
                 startStore, finished, creations>>
  /\ UNCHANGED waits
  /\ UNCHANGED <<raceVars, matchVars, extVars>>

\* lines 136-149: the stream raises ResourceExhausted or RetryError; after the
\* third failure the warning is logged and (index, False) is returned
IndexAttemptQuota ==
  /\ pc = "index" /\ orgPos <= Len(orgNames)
  /\ IF idxAttempt + 1 < IndexAttempts
     THEN /\ idxAttempt' = idxAttempt + 1
          /\ UNCHANGED <<pc, warned, index_ready>>
     ELSE /\ idxAttempt' = idxAttempt + 1
          /\ warned' = TRUE
          /\ index_ready' = FALSE
          /\ pc' = IF Len(batch) = 0 THEN "done" ELSE "write"
  /\ UNCHANGED <<store, log, batch, orgPos, index, pos, attempt, startStore,
                 finished, creations>>
  /\ UNCHANGED waits
  /\ UNCHANGED <<raceVars, matchVars, extVars>>

\* the stream raises any other exception: it propagates out of main
IndexAttemptError ==
  /\ pc = "index" /\ orgPos <= Len(orgNames)
  /\ pc' = "aborted"
  /\ UNCHANGED <<store, log, batch, orgPos, idxAttempt, index, index_ready, warned,
                 pos, attempt, startStore, finished, creations>>
  /\ UNCHANGED waits
  /\ UNCHANGED <<raceVars, matchVars, extVars>>

\* line 150: every partition was streamed, return (index, True)
IndexReturn ==
  /\ pc = "index" /\ orgPos > Len(orgNames)
  /\ index_ready' = TRUE
  /\ pc' = IF Len(batch) = 0 THEN "done" ELSE "write"
  /\ UNCHANGED <<store, log, batch, orgPos, idxAttempt, index, warned, pos, attempt,
                 startStore, finished, creations>>
  /\ UNCHANGED waits
  /\ UNCHANGED <<raceVars, matchVars, extVars>>

\* the loop of main (lines 69-75) moves to the next record
NextRecord(st, entry) ==
  /\ finished' = Append(finished, entry)
  /\ pos' = pos + 1
  /\ attempt' = 0
  /\ waits' = << >>
  /\ startStore' = st
  /\ pc' = IF pos = Len(batch) THEN "done" ELSE "write"

Creation(w, record) ==
  IF w.isNew
  THEN {[id |-> w.id, supplied |-> record.equipment_id,
         stored |-> Get(w.store[w.id], "equipment_id"), ready |-> index_ready]}
  ELSE {}

\* _upsert_with_index returns: the write is applied and the index updated
WriteOk(newId) ==
  /\ pc = "write" /\ newId \notin DOMAIN store
  /\ LET w == _upsert_with_index(store, batch[pos], index, index_ready, newId)
     IN  /\ store' = w.store
         /\ index' = w.index
         /\ creations' = creations \cup Creation(w, batch[pos])
         /\ NextRecord(w.store,
              [record |-> batch[pos], retried |-> attempt, status |-> w.status,
               id |-> w.id, before |-> startStore, after |-> w.store])
  /\ UNCHANGED <<log, batch, orgPos, idxAttempt, index_ready, warned>>
  /\ UNCHANGED <<raceVars, matchVars, extVars>>

\* what a raising attempt does next: retry (lines 102-111) while attempts are
\* left, else the last call (line 112) lets the exception out of main
AfterQuotaError(st) ==
  IF attempt < Retries
  THEN /\ attempt' = attempt + 1
       /\ waits' = Append(waits, RetryWait(attempt))
       /\ UNCHANGED <<pc, pos, startStore, finished>>
  ELSE /\ pc' = "aborted"
       /\ finished' = Append(finished,
            [record |-> batch[pos], retried |-> attempt, status |-> "raised",
             id |-> "", before |-> startStore, after |-> st])
       /\ UNCHANGED <<attempt, pos, startStore, waits>>
  /\ UNCHANGED <<raceVars, matchVars, extVars>>

\* the store write raises ResourceExhausted or RetryError and was not applied
WriteQuotaRejected ==
  /\ pc = "write"
  /\ AfterQuotaError(store)
  /\ UNCHANGED <<store, log, batch, orgPos, idxAttempt, index, index_ready, warned,
                 creations>>
  /\ UNCHANGED <<raceVars, matchVars, extVars>>

\* the store write raises RetryError after the store applied it (the answer was
\* lost): the lines after doc_ref.set / ref.set, the index update, do not run
WriteQuotaApplied(newId) ==
  /\ pc = "write" /\ newId \notin DOMAIN store
  /\ LET w == _upsert_with_index(store, batch[pos], index, index_ready, newId)
     IN  /\ store' = w.store
         /\ creations' = creations \cup Creation(w, batch[pos])
         /\ AfterQuotaError(w.store)
  /\ UNCHANGED <<log, batch, orgPos, idxAttempt, index, index_ready, warned>>
  /\ UNCHANGED <<raceVars, matchVars, extVars>>

\* the store write raises any other exception: it propagates out of main
WriteError ==
  /\ pc = "write"
  /\ pc' = "aborted"
  /\ finished' = Append(finished,
       [record |-> batch[pos], retried |-> attempt, status |-> "raised",
        id |-> "", before |-> startStore, after |-> store])
  /\ UNCHANGED <<store, log, batch, orgPos, idxAttempt, index, index_ready, warned,
                 pos, attempt, startStore, creations>>
  /\ UNCHANGED waits
  /\ UNCHANGED <<raceVars, matchVars, extVars>>

\* the id collection.document() assigns in a crawl run. The run queries the
\* store only while it builds the index, before its first write, so the order
\* of a new id among the others is never observed: the first unused id stands
\* for any of them
FreshIds(st) ==
  LET unused == AutoIds \ DOMAIN st
  IN  IF unused = {} THEN {} ELSE {Limit1(unused)}

NextMain ==
  \/ IndexAttemptOk
  \/ IndexAttemptQuota
  \/ IndexAttemptError
  \/ IndexReturn
  \/ \E newId \in FreshIds(store) : WriteOk(newId)
  \/ WriteQuotaRejected
  \/ \E newId \in FreshIds(store) : WriteQuotaApplied(newId)
  \/ WriteError

SpecMain == InitMain /\ [][NextMain]_vars

----------------------------------------------------------------------------
(* Two writers running upsert_equipment concurrently *)

RaceRecords == {r \in EquipmentRecord : r.org_name = "o1" /\ r.fee_note = "f1"}

InitRace ==
  /\ store = EmptyStore
  /\ UpsertOff /\ MainOff /\ MatchOff /\ ExtOff
  /\ wpc = [w \in Writers |-> "idle"] /\ wrec = [w \in Writers |-> NoRecord]
  /\ wref = [w \in Writers |-> ""] /\ wres = [w \in Writers |-> NoResult]
  /\ wdone = [w \in Writers |-> 0] /\ wover = [w \in Writers |-> FALSE]

\* a writer between the first query and the write of its call
MidCall(w) == wpc[w] \in {"query_id", "query_key", "set", "create"}

\* the call starts: line 27 decides which query runs first
Begin(w, record) ==
  /\ wpc[w] \in {"idle", "done"}
  /\ wdone[w] < MaxRaceRecs
  /\ wrec' = [wrec EXCEPT ![w] = record]
  /\ wref' = [wref EXCEPT ![w] = ""]
  /\ wres' = [wres EXCEPT ![w] = NoResult]
  /\ wpc' = [wpc EXCEPT ![w] = IF record.equipment_id # "" THEN "query_id"
                               ELSE IF record.dedupe_key # "" THEN "query_key"
                               ELSE "create"]
  /\ wover' = [v \in Writers |->
                IF v = w THEN \E u \in Writers \ {w} : MidCall(u)
                ELSE wover[v] \/ MidCall(v)]
  /\ UNCHANGED <<store, wdone, upsertVars, mainVars, matchVars, extVars>>

\* lines 28-34: the equipment_id query and its answer
QueryId(w) ==
  /\ wpc[w] = "query_id"
  /\ LET found == LookupById(store, wrec[w])
     IN  IF found # {}
         THEN /\ wref' = [wref EXCEPT ![w] = Limit1(found)]
              /\ wpc' = [wpc EXCEPT ![w] = "set"]
         ELSE /\ wpc' = [wpc EXCEPT ![w] = IF wrec[w].dedupe_key # ""
                                          THEN "query_key" ELSE "create"]
              /\ UNCHANGED wref
  /\ UNCHANGED <<store, wrec, wres, wdone, wover, upsertVars, mainVars, matchVars, extVars>>

\* lines 39-43: the dedupe_key query and its answer
QueryKey(w) ==
  /\ wpc[w] = "query_key"
  /\ LET found == LookupByKey(store, wrec[w])
     IN  IF found # {}
         THEN /\ wref' = [wref EXCEPT ![w] = Limit1(found)]
              /\ wpc' = [wpc EXCEPT ![w] = "set"]
         ELSE /\ wpc' = [wpc EXCEPT ![w] = "create"]
              /\ UNCHANGED wref
  /\ UNCHANGED <<store, wrec, wres, wdone, wover, upsertVars, mainVars, matchVars, extVars>>

\* lines 35-36 and 44-45: the merge write to the document the query found
SetFound(w) ==
  /\ wpc[w] = "set"
  /\ store' = SetMerge(store, wref[w], to_firestore(wrec[w]))
  /\ wres' = [wres EXCEPT ![w] = [id |-> wref[w], status |-> "updated"]]
  /\ wpc' = [wpc EXCEPT ![w] = "done"]
  /\ wdone' = [wdone EXCEPT ![w] = @ + 1]
  /\ UNCHANGED <<wrec, wref, wover, upsertVars, mainVars, matchVars, extVars>>

\* lines 47-51: the write of a new document
Create(w, newId) ==
  /\ wpc[w] = "create"
  /\ newId \notin DOMAIN store
  /\ LET ref == NewDocumentRef(wrec[w], newId)
     IN  /\ store' = SetDoc(store, ref, CreatePayload(wrec[w], ref))
         /\ wres' = [wres EXCEPT ![w] = [id |-> ref, status |-> "created"]]
  /\ wpc' = [wpc EXCEPT ![w] = "done"]
  /\ wdone' = [wdone EXCEPT ![w] = @ + 1]
  /\ UNCHANGED <<wrec, wref, wover, upsertVars, mainVars, matchVars, extVars>>

NextRace ==
  \/ \E w \in Writers, record \in RaceRecords : Begin(w, record)
  \/ \E w \in Writers : QueryId(w)
  \/ \E w \in Writers : QueryKey(w)
  \/ \E w \in Writers : SetFound(w)
  \/ \E w \in Writers, newId \in AutoIdsUpTo(2 * MaxRaceRecs) : Create(w, newId)

SpecRace == InitRace /\ [][NextRace]_vars

----------------------------------------------------------------------------
(* decide_match applied to a scored candidate list *)

Scores == MinScore..MaxScore

\* a scored candidate as score_candidate returns it (the fields decide_match reads)
TopCandidates ==
  [id : {"101", "202"}, score : Scores, name_exact : BOOLEAN, org_match : BOOLEAN]

\* the candidates below the top: decide_match reads only the runner-up's score
LowerCandidates ==
  [id : {"303"}, score : Scores, name_exact : {FALSE}, org_match : {FALSE}]

\* build_updates sorts the list by score, descending, before the call (line 314)
SortedDesc(sc) == \A i \in 1..(Len(sc) - 1) : sc[i].score >= sc[i + 1].score

LowerLists == UNION {[1..n -> LowerCandidates] : n \in 0..(MaxCands - 1)}

CandidateLists ==
  {<< >>} \cup
  {sc \in {<<top>> \o rest : top \in TopCandidates, rest \in LowerLists} :
     SortedDesc(sc)}

\* decide_match has not been called yet
Pending == [id |-> "", confidence |-> "pending"]

InitMatch ==
  /\ store = EmptyStore
  /\ UpsertOff /\ MainOff /\ RaceOff /\ ExtOff
  /\ cands \in CandidateLists
  /\ result = Pending

\* line 316: match_id, confidence = decide_match(scored_candidates)
Decide ==
  /\ result = Pending
  /\ result' = decide_match(cands)
  /\ UNCHANGED <<store, cands, upsertVars, mainVars, raceVars, extVars>>

NextMatch == Decide

SpecMatch == InitMatch /\ [][NextMatch]_vars

----------------------------------------------------------------------------
(* Claims about single-writer upsert_equipment histories (Spec) *)

\* the store right after write i of the history
After(i) == IF i < Len(log) THEN log[i + 1].before ELSE store

\* documents of st that hold key value v in field f (none for an empty key)
Holding(st, f, v) == IF v = "" THEN {} ELSE Where(st, f, v)

ShareKey(r1, r2) ==
  \/ r1.equipment_id # "" /\ r1.equipment_id = r2.equipment_id
  \/ r1.dedupe_key # "" /\ r1.dedupe_key = r2.dedupe_key

\* C1 (as claimed): any two writes of a single-writer history from the empty
\* store whose records share a non-empty equipment_id or a non-empty dedupe_key
\* return the same document id, whatever writes lie between them.
C1_SameKeySameDoc ==
  \A i, j \in 1..Len(log) :
    (i < j /\ ShareKey(log[i].record, log[j].record)) => log[i].id = log[j].id

\* C2 (as claimed): in every state reached by single-writer writes from the
\* empty store no two documents hold the same equipment_id and no two hold the
\* same dedupe_key.
C2_UniqueKeys ==
  \A d, e \in DOMAIN store :
    d # e =>
      /\ ~(Get(store[d], "equipment_id") # ""
           /\ Get(store[d], "equipment_id") = Get(store[e], "equipment_id"))
      /\ ~(Get(store[d], "dedupe_key") # ""
           /\ Get(store[d], "dedupe_key") = Get(store[e], "dedupe_key"))

\* the part of C2 that does hold: equipment_id values are unique in the store
C2_UniqueEquipmentId ==
  \A d, e \in DOMAIN store :
    (d # e /\ Get(store[d], "equipment_id") # "")
      => Get(store[d], "equipment_id") # Get(store[e], "equipment_id")

\* two successive writes i, i+1 of records with the same non-empty equipment_id
SameIdPair(i) ==
  /\ i \in 1..(Len(log) - 1)
  /\ log[i].record.equipment_id # ""
  /\ log[i].record.equipment_id = log[i + 1].record.equipment_id

\* what C3 concludes about writes i and i+1
C3_Conclusion(i) ==
  LET first == log[i]
      second == log[i + 1]
  IN  /\ first.status = "created"
      /\ second.status = "updated"
      /\ second.id = first.id
      /\ Cardinality(Holding(After(i + 1), "equipment_id",
                             first.record.equipment_id)) = 1
      /\ second.id \in DOMAIN After(i + 1)
      /\ \A f \in Fields :
           Get(After(i + 1)[second.id], f) =
             IF second.record[f] # "" THEN second.record[f] ELSE first.record[f]

\* C3 (as claimed): two successive writes with the same non-empty equipment_id,
\* starting from a store with no document for that id, give created then
\* updated on one document whose fields are the second record's non-empty
\* values over the first record's.
C3_TwoWritesOriginal ==
  \A i \in 1..MaxWrites :
    (SameIdPair(i)
     /\ Holding(log[i].before, "equipment_id", log[i].record.equipment_id) = {})
      => C3_Conclusion(i)

\* C3 (amended): the same, starting from a store that has no document for the
\* id and no document holding the first record's dedupe_key either.
C3_TwoWritesAmended ==
  \A i \in 1..MaxWrites :
    (SameIdPair(i)
     /\ Holding(log[i].before, "equipment_id", log[i].record.equipment_id) = {}
     /\ Holding(log[i].before, "dedupe_key", log[i].record.dedupe_key) = {})
      => C3_Conclusion(i)

\* witness of C3: on a non-empty store, a second write that replaces the
\* dedupe_key and leaves the first write's fee_note in place
C3_Witness ==
  \E i \in 1..MaxWrites :
    /\ SameIdPair(i)
    /\ log[i].before # EmptyStore
    /\ Holding(log[i].before, "equipment_id", log[i].record.equipment_id) = {}
    /\ Holding(log[i].before, "dedupe_key", log[i].record.dedupe_key) = {}
    /\ log[i].record.dedupe_key # ""
    /\ log[i + 1].record.dedupe_key \notin {"", log[i].record.dedupe_key}
    /\ log[i].record.fee_note # ""
    /\ log[i + 1].record.fee_note = ""
    /\ Get(After(i + 1)[log[i + 1].id], "fee_note") = log[i].record.fee_note
    /\ Get(After(i + 1)[log[i + 1].id], "dedupe_key") = log[i + 1].record.dedupe_key

\* the document a write is directed to: equipment_id match first, dedupe_key second
C4_Matched(w) ==
  LET byId == Holding(w.before, "equipment_id", w.record.equipment_id)
      byKey == Holding(w.before, "dedupe_key", w.record.dedupe_key)
  IN  IF byId # {} THEN byId ELSE byKey

\* C4: every write goes to a document matching the equipment_id if there is
\* one, else to a document matching the dedupe_key if there is one, else to a
\* new document; it returns updated exactly when a document was matched and
\* created exactly when the store grew by one document; no other document
\* changes.
C4_LookupOrder ==
  \A i \in 1..Len(log) :
    LET w == log[i]
        after == After(i)
        matched == C4_Matched(w)
    IN  /\ matched # {} => w.id \in matched
        /\ matched = {} => w.id \notin DOMAIN w.before
        /\ (w.status = "updated") = (matched # {})
        /\ (w.status = "created") =
             (Cardinality(DOMAIN after) = Cardinality(DOMAIN w.before) + 1)
        /\ w.status \in {"created", "updated"}
        /\ w.id \in DOMAIN after
        /\ \A f \in Fields :
             w.record[f] # "" => Get(after[w.id], f) = w.record[f]
        /\ \A d \in DOMAIN w.before : d # w.id => after[d] = w.before[d]
        /\ DOMAIN after = DOMAIN w.before \cup {w.id}

\* witness of C4: a write whose equipment_id and dedupe_key match two different
\* documents and that went to the equipment_id's document
C4_Witness ==
  \E i \in 1..Len(log) :
    LET w == log[i]
        byId == Holding(w.before, "equipment_id", w.record.equipment_id)
        byKey == Holding(w.before, "dedupe_key", w.record.dedupe_key)
    IN  /\ byId # {} /\ byKey # {} /\ byId \cap byKey = {}
        /\ w.id \in byId /\ w.status = "updated"

----------------------------------------------------------------------------
(* Claims about the crawl run (SpecMain) *)

KeyFields == {"equipment_id", "dedupe_key"}

\* C5 (as claimed): a record write that _upsert_with_retry retried after a
\* quota error ends (returns or raises) with at most one stored document for
\* each of the record's keys, also when a failed attempt's write had been
\* applied by the store.
C5_RetriedWriteOneDoc ==
  \A i \in 1..Len(finished) :
    finished[i].retried >= 1 =>
      \A f \in KeyFields :
        Cardinality(Holding(finished[i].after, f, finished[i].record[f])) <= 1

\* C6 (as claimed): every document the upsert engine creates stores a
\* non-empty equipment_id, the record's own when supplied and the new
\* document's id otherwise, in upsert_equipment and in both modes of
\* _upsert_with_index.
C6_CreatedStoresEquipmentId ==
  /\ \A c \in creations :
       /\ c.stored # ""
       /\ c.stored = IF c.supplied # "" THEN c.supplied ELSE c.id
  /\ \A i \in 1..Len(log) :
       log[i].status = "created" =>
         /\ Get(After(i)[log[i].id], "equipment_id") # ""
         /\ Get(After(i)[log[i].id], "equipment_id") =
              IF log[i].record.equipment_id # ""
              THEN log[i].record.equipment_id ELSE log[i].id

\* the index build gave up on a partition after IndexAttempts quota errors
IndexBuildFailed == idxAttempt = IndexAttempts

\* C7 (as claimed): when the index build fails on quota errors the run goes on
\* to the record loop instead of aborting, the warning is logged before the
\* first record write, the run stays in write-only mode, and by the time the
\* run ends a write has been attempted for every record of the batch.
C7_DegradedRunWritesAll ==
  IndexBuildFailed =>
    /\ warned
    /\ index_ready = FALSE
    /\ pc \in {"write", "done", "aborted"}
    /\ (pc \in {"done", "aborted"} => Len(finished) = Len(batch))

----------------------------------------------------------------------------
(* Claims about two concurrent writers (SpecRace) *)

\* both writers have returned from overlapping calls on records that share a
\* dedupe_key, and both took the create branch
BothCreated(w1, w2) ==
  /\ w1 # w2
  /\ wpc[w1] = "done" /\ wpc[w2] = "done"
  /\ wover[w1] /\ wover[w2]
  /\ wrec[w1].dedupe_key # "" /\ wrec[w1].dedupe_key = wrec[w2].dedupe_key
  /\ wres[w1].status = "created" /\ wres[w2].status = "created"

\* C8: the lookup and the write of upsert_equipment are separate steps, so two
\* overlapping calls on records sharing a dedupe_key can both miss the lookup
\* and both create; whenever they do, two different documents hold that
\* dedupe_key.
C8_RaceDuplicates ==
  \A w1, w2 \in Writers :
    BothCreated(w1, w2) =>
      /\ wres[w1].id # wres[w2].id
      /\ {wres[w1].id, wres[w2].id}
           \subseteq Holding(store, "dedupe_key", wrec[w1].dedupe_key)

\* witness of C8: from the empty store both writers created a document for the
\* same dedupe_key, which two documents now hold
C8_Witness ==
  /\ BothCreated("w1", "w2")
  /\ Cardinality(Holding(store, "dedupe_key", wrec["w1"].dedupe_key)) = 2

----------------------------------------------------------------------------
(* Claims about decide_match (SpecMatch) *)

Decided == result.confidence \notin {"pending", "off"}

\* the rules of the decision, for a list with a runner-up
HighRule(sc) ==
  \/ sc[1].name_exact /\ sc[1].org_match /\ sc[1].score >= 88
  \/ sc[1].score >= 92 /\ sc[1].score - sc[2].score >= 6

MediumRule(sc) ==
  ~HighRule(sc) /\ sc[1].score >= 82 /\ sc[1].score - sc[2].score >= 10

\* C9: for a sorted list with a runner-up, decide_match returns high with the
\* top's id exactly when HighRule holds, medium with the top's id exactly when
\* MediumRule holds, and otherwise, as for the empty list, ("", none); a top
\* of 95 with both flags over 80 is high, 85 over 84 is no match.
C9_DecisionRule ==
  (Decided /\ Len(cands) # 1) =>
    /\ cands = << >> => result = [id |-> "", confidence |-> "none"]
    /\ Len(cands) >= 2 =>
         /\ (result.confidence = "high") = HighRule(cands)
         /\ (result.confidence = "medium") = MediumRule(cands)
         /\ result.confidence \in {"high", "medium", "none"}
         /\ result.id = IF result.confidence = "none" THEN "" ELSE cands[1].id
         /\ (cands[1].score = 95 /\ cands[1].name_exact /\ cands[1].org_match
             /\ cands[2].score = 80)
              => result = [id |-> cands[1].id, confidence |-> "high"]
         /\ (cands[1].score = 85 /\ cands[2].score = 84)
              => result = [id |-> "", confidence |-> "none"]

\* witness of C9: the first example of the claim, decided high
C9_Witness ==
  /\ Decided /\ Len(cands) >= 2
  /\ cands[1].score = 95 /\ cands[1].name_exact /\ cands[1].org_match
  /\ cands[2].score = 80
  /\ result = [id |-> cands[1].id, confidence |-> "high"]

\* C10 (as claimed): a lone candidate, its margin being -1, is accepted by
\* neither margin rule: it is matched only through the rule name_exact and
\* org_match and score >= 88.
C10_LoneOnlyByFlags ==
  (Decided /\ Len(cands) = 1 /\ result.confidence # "none") =>
    (cands[1].name_exact /\ cands[1].org_match /\ cands[1].score >= 88)

\* C10 (amended): for a lone candidate the runner-up score is taken as -1, so
\* margin = score + 1 and both margin conditions hold whenever their score
\* conditions do: the candidate is matched high when it has both flags and
\* score >= 88 or when score >= 92, medium when not high and score >= 82, and
\* not matched otherwise.
C10_LoneByScore ==
  (Decided /\ Len(cands) = 1) =>
    LET top == cands[1]
        high == (top.name_exact /\ top.org_match /\ top.score >= 88) \/ top.score >= 92
    IN  /\ Margin(cands) = top.score + 1
        /\ (result.confidence = "high") = high
        /\ (result.confidence = "medium") = (~high /\ top.score >= 82)
        /\ result.confidence \in {"high", "medium", "none"}
        /\ result.id = IF result.confidence = "none" THEN "" ELSE top.id

\* witness of C10: a lone candidate without the flags matched on its score
C10_Witness ==
  /\ Decided /\ Len(cands) = 1
  /\ ~cands[1].name_exact /\ ~cands[1].org_match
  /\ cands[1].score = 92
  /\ result = [id |-> cands[1].id, confidence |-> "high"]

\* C11 (as claimed): with a runner-up whose score is less than 6 below the
\* top's, decide_match returns no match, however high the top score is; in
\* particular a tie for the top score is not matched.
C11_SmallMarginNoMatch ==
  (Decided /\ Len(cands) >= 2 /\ cands[1].score - cands[2].score < 6) =>
    result = [id |-> "", confidence |-> "none"]

----------------------------------------------------------------------------
(* eqnet_backfill.build_updates *)

\* scores of the candidates build_updates is given
UpdScores == {76, 88, 94, 100}

\* build_eqnet_url: the detail URL of an id, "" for no id (parse_eqnet_id of
\* an id made of digits is the id itself)
build_eqnet_url(equipment_id) ==
  IF equipment_id = "" THEN ""
  ELSE "https://eqnet.jp/top#/public/equipment/" \o equipment_id

\* mutant: the list is left in pool order
KeepPoolOrder(seq) == seq

RECURSIVE InsertByScore(_, _)
\* x put behind every entry whose score is not lower than its own
InsertByScore(seq, x) ==
  IF seq = << >> THEN <<x>>
  ELSE IF Head(seq).score >= x.score
       THEN <<Head(seq)>> \o InsertByScore(Tail(seq), x)
       ELSE <<x>> \o seq

RECURSIVE SortByScoreDesc(_)
\* line 314: scored_candidates.sort(key=score, reverse=True), a stable sort:
\* candidates of equal score keep their pool order
SortByScoreDesc(seq) ==
  IF seq = << >> THEN << >>
  ELSE InsertByScore(SortByScoreDesc(SubSeq(seq, 1, Len(seq) - 1)), seq[Len(seq)])

\* build_updates, from the name of the document and the scored pool (the
\* timestamp and the name and affiliation copied with each id are left out)
build_updates(name, scored_pool, cand_limit) ==
  IF name = ""
  THEN [eqnet_match_status |-> "skipped", eqnet_match_error |-> "missing_name"]
  ELSE LET scored_candidates == SortByScoreDesc(scored_pool)
           decision == decide_match(scored_candidates)
           match_id == decision.id
           candidate_payload ==
             [i \in 1..Min(cand_limit, Len(scored_candidates)) |->
                [id |-> scored_candidates[i].id,
                 url |-> build_eqnet_url(scored_candidates[i].id),
                 score |-> scored_candidates[i].score]]
           common == [eqnet_match_query |-> name,
                      eqnet_match_total |-> Len(scored_pool),
                      eqnet_candidates |-> candidate_payload]
       IN  IF match_id # ""
           THEN common @@
                [eqnet_match_status |-> "matched",
                 eqnet_match_confidence |-> decision.confidence,
                 eqnet_equipment_id |-> match_id,
                 eqnet_url |-> build_eqnet_url(match_id),
                 eqnet_match_error |-> ""]
           ELSE common @@
                [eqnet_equipment_id |-> "",
                 eqnet_url |-> "",
                 eqnet_match_confidence |-> "",
                 eqnet_match_error |-> "",
                 eqnet_match_status |->
                   IF candidate_payload # << >> THEN "candidate" ELSE "unmatched"]

\* what score_candidate returns for the candidate at position i of the pool:
\* fetch_master_candidates keeps only candidates with an id, a string of digits
ScoredAt(i) ==
  [id : {ToString(100 + i)}, score : UpdScores,
   name_exact : BOOLEAN, org_match : BOOLEAN]

ScoredPools ==
  UNION {{sc \in [1..n -> UNION {ScoredAt(i) : i \in 1..n}] :
            \A i \in 1..n : sc[i] \in ScoredAt(i)} : n \in 0..MaxCands}

\* run_backfill rejects a candidate_limit below 1 (lines 399-401)
InitUpdates ==
  /\ CrawlOff /\ ScanOff /\ RunOff /\ TextOff /\ LateOff
  /\ data_name \in {"", "n1"}
  /\ scored \in ScoredPools
  /\ candidate_limit \in 1..MaxCands
  /\ updates = << >>

BuildUpdates ==
  /\ updates = << >>
  /\ updates' = build_updates(data_name, scored, candidate_limit)
  /\ UNCHANGED <<crawlVars, data_name, scored, candidate_limit, scanVars, runVars,
                 textVars, lateVars>>

NextUpdates == BuildUpdates

SpecUpdates == InitUpdates /\ [][NextUpdates]_vars

----------------------------------------------------------------------------
(* Claims about build_updates (SpecUpdates) *)

\* C12: for a document with a non-empty name, the stored eqnet_candidates
\* are the first candidate_limit scored candidates in non-increasing score
\* order (as many as the limit allows, each a candidate of the pool, none
\* twice, no candidate left out scoring higher than a stored one), whether or
\* not a match is decided; eqnet_equipment_id, eqnet_url and
\* eqnet_match_confidence are non-empty exactly when decide_match decided high
\* or medium, and then the status is matched; otherwise the three are empty
\* and the status is candidate if a candidate is stored, unmatched if none.
C12_UpdatesFields ==
  (updates # << >> /\ data_name # "") =>
    LET cs == updates.eqnet_candidates
        decision == decide_match(SortByScoreDesc(scored))
        decided == decision.confidence \in {"high", "medium"}
        stored(j) == \E i \in 1..Len(cs) : cs[i].id = scored[j].id
    IN  /\ Len(cs) = Min(candidate_limit, Len(scored))
        /\ \A i \in 1..(Len(cs) - 1) : cs[i].score >= cs[i + 1].score
        /\ \A i, k \in 1..Len(cs) : i # k => cs[i].id # cs[k].id
        /\ \A i \in 1..Len(cs) : \E j \in 1..Len(scored) :
             scored[j].id = cs[i].id /\ scored[j].score = cs[i].score
        /\ \A j \in 1..Len(scored) : ~stored(j) =>
             \A i \in 1..Len(cs) : cs[i].score >= scored[j].score
        /\ (updates.eqnet_equipment_id # "") = decided
        /\ (updates.eqnet_url # "") = decided
        /\ (updates.eqnet_match_confidence # "") = decided
        /\ decided =>
             /\ updates.eqnet_match_status = "matched"
             /\ updates.eqnet_match_confidence = decision.confidence
             /\ updates.eqnet_equipment_id = decision.id
        /\ ~decided =>
             updates.eqnet_match_status =
               IF cs # << >> THEN "candidate" ELSE "unmatched"

\* witness of C12: a match decided on a pool that was not in score order,
\* with fewer candidates stored than scored
C12_Witness ==
  /\ updates # << >> /\ data_name # ""
  /\ Len(scored) = 2 /\ candidate_limit = 1
  /\ scored[1].score < scored[2].score
  /\ updates.eqnet_match_status = "matched"
  /\ updates.eqnet_equipment_id = scored[2].id
  /\ Len(updates.eqnet_candidates) = 1

----------------------------------------------------------------------------
(* The paginated scans: backfill.iter_collection_docs and
   eqnet_backfill.iter_documents *)

\* exceptions a stream call raises: the class, and which of the phrases
\* looked for occur in the lower-cased message
StreamErrors ==
  {[class |-> "ServiceUnavailable", phrases |-> {}],
   [class |-> "DeadlineExceeded", phrases |-> {"deadline exceeded"}],
   [class |-> "InternalServerError", phrases |-> {}],
   [class |-> "RetryError", phrases |-> {}],
   [class |-> "ResourceExhausted", phrases |-> {}],
   [class |-> "PermissionDenied", phrases |-> {}],
   [class |-> "OSError", phrases |-> {"timed out"}],
   [class |-> "Exception", phrases |-> {"dns resolution failed"}]}

\* backfill.is_retryable_stream_error
is_retryable_stream_error(exc) ==
  \/ exc.class \in {"ServiceUnavailable", "DeadlineExceeded",
                    "InternalServerError", "RetryError"}
  \/ exc.phrases \cap {"dns resolution failed", "could not contact dns servers",
                       "statuscode.unavailable", "deadline exceeded", "timed out",
                       "temporarily unavailable"} # {}

\* the except clause of iter_documents (line 379)
EqnetCaught(exc) == exc.class \in {"DeadlineExceeded", "ServiceUnavailable"}

\* attempts of iter_documents per page (line 375)
EqnetAttempts == 3

RECURSIVE Pow2(_)
Pow2(n) == IF n = 0 THEN 1 ELSE 2 * Pow2(n - 1)

\* mutant: one second before every retry
SleepOneSecond(k) == 1

\* line 227: sleep_seconds = min(2**attempt, 30), for attempt = k
SleepSeconds(k) == Min(Pow2(k), 30)

\* line 382: time.sleep(2 * (attempt + 1)), for attempt = k
EqnetSleepSeconds(k) == 2 * (k + 1)

RECURSIVE Ascending(_)
\* the keys of a set, in key order
Ascending(S) ==
  IF S = {} THEN << >>
  ELSE LET k == CHOOSE x \in S : \A y \in S : x <= y
       IN  <<k>> \o Ascending(S \ {k})

\* mutant: the page starts at the cursor document
PageFrom(keys, cursor, size) ==
  LET after == Ascending({k \in keys : k >= cursor})
  IN  SubSeq(after, 1, Min(size, Len(after)))

\* order_by("__name__").limit(page_size), start_after(last_doc) when there is
\* a cursor: the first page_size documents whose key follows the cursor's
Page(keys, cursor, size) ==
  LET after == Ascending({k \in keys : k > cursor})
  IN  SubSeq(after, 1, Min(size, Len(after)))

\* run_backfill rejects a page size below 1 and a negative retry count;
\* iter_documents replaces a page size below 1 by 200
InitScan ==
  /\ CrawlOff /\ UpdOff /\ RunOff /\ TextOff /\ LateOff
  /\ scanner \in {"backfill", "eqnet"}
  /\ page_size \in 1..MaxPage
  /\ max_retries \in IF scanner = "backfill" THEN 0..MaxRetries ELSE {0}
  /\ coll \in SUBSET Keys
  /\ stable = coll
  /\ last_doc = 0 /\ sattempt = 0 /\ spc = "read"
  /\ yielded = << >> /\ psleeps = << >> /\ pfails = 0 /\ lastExc = NoExc
  /\ pageLog = << >> /\ mutations = 0 /\ nfails = 0

\* the stream call of the current page succeeds: its documents are yielded
\* and the last one becomes the cursor; an empty page ends the scan, and in
\* iter_documents a page shorter than page_size does too
StreamPage ==
  /\ spc = "read"
  /\ LET docs == Page(coll, last_doc, page_size)
     IN  /\ pageLog' = Append(pageLog, [docs |-> docs, fails |-> pfails,
                                        sleeps |-> psleeps])
         /\ yielded' = yielded \o docs
         /\ IF docs = << >>
            THEN spc' = "done" /\ UNCHANGED last_doc
            ELSE IF scanner = "eqnet" /\ Len(docs) < page_size
            THEN spc' = "done" /\ UNCHANGED last_doc
            ELSE spc' = "read" /\ last_doc' = docs[Len(docs)]
  /\ sattempt' = 0 /\ psleeps' = << >> /\ pfails' = 0 /\ lastExc' = NoExc
  /\ UNCHANGED <<scanner, page_size, max_retries, coll, stable, mutations, nfails>>
  /\ UNCHANGED <<crawlVars, updVars, runVars, textVars, lateVars>>

\* iter_collection_docs, lines 224-232: the stream call raises exc
StreamFails(exc) ==
  /\ spc = "read" /\ scanner = "backfill" /\ nfails < MaxFails
  /\ nfails' = nfails + 1 /\ pfails' = pfails + 1 /\ lastExc' = exc
  /\ IF ~is_retryable_stream_error(exc) \/ sattempt >= max_retries
     THEN spc' = "raised" /\ UNCHANGED <<sattempt, psleeps>>
     ELSE /\ psleeps' = Append(psleeps, SleepSeconds(sattempt))
          /\ sattempt' = sattempt + 1
          /\ UNCHANGED spc
  /\ UNCHANGED <<scanner, page_size, max_retries, coll, stable, last_doc,
                 yielded, pageLog, mutations>>
  /\ UNCHANGED <<crawlVars, updVars, runVars, textVars, lateVars>>

\* iter_documents, lines 379-382: the stream call raises exc; an exception of
\* another class than the two caught leaves the generator at once
EqnetStreamFails(exc) ==
  /\ spc = "read" /\ scanner = "eqnet" /\ nfails < MaxFails
  /\ nfails' = nfails + 1 /\ pfails' = pfails + 1 /\ lastExc' = exc
  /\ IF ~EqnetCaught(exc) \/ sattempt >= EqnetAttempts - 1
     THEN spc' = "raised" /\ UNCHANGED <<sattempt, psleeps>>
     ELSE /\ psleeps' = Append(psleeps, EqnetSleepSeconds(sattempt))
          /\ sattempt' = sattempt + 1
          /\ UNCHANGED spc
  /\ UNCHANGED <<scanner, page_size, max_retries, coll, stable, last_doc,
                 yielded, pageLog, mutations>>
  /\ UNCHANGED <<crawlVars, updVars, runVars, textVars, lateVars>>

\* another writer creates a document while the scan is between page reads
InsertDoc(k) ==
  /\ spc = "read" /\ mutations < MaxMut /\ k \notin coll
  /\ coll' = coll \cup {k} /\ mutations' = mutations + 1
  /\ UNCHANGED <<scanner, page_size, max_retries, stable, last_doc, sattempt, spc,
                 yielded, psleeps, pfails, lastExc, pageLog, nfails>>
  /\ UNCHANGED <<crawlVars, updVars, runVars, textVars, lateVars>>

\* another writer deletes a document while the scan is between page reads
DeleteDoc(k) ==
  /\ spc = "read" /\ mutations < MaxMut /\ k \in coll
  /\ coll' = coll \ {k} /\ stable' = stable \ {k} /\ mutations' = mutations + 1
  /\ UNCHANGED <<scanner, page_size, max_retries, last_doc, sattempt, spc,
                 yielded, psleeps, pfails, lastExc, pageLog, nfails>>
  /\ UNCHANGED <<crawlVars, updVars, runVars, textVars, lateVars>>

NextScan ==
  \/ StreamPage
  \/ \E exc \in StreamErrors : StreamFails(exc)
  \/ \E exc \in StreamErrors : EqnetStreamFails(exc)
  \/ \E k \in Keys : InsertDoc(k)
  \/ \E k \in Keys : DeleteDoc(k)

SpecScan == InitScan /\ [][NextScan]_vars

----------------------------------------------------------------------------
(* Claims about the paginated scans (SpecScan) *)

\* the transient error classes of the retry policy: unavailable,
\* deadline-exceeded, resource-exhausted, retryable RPC, and a message with a
\* DNS or timeout phrase
Transient(exc) ==
  \/ exc.class \in {"ServiceUnavailable", "DeadlineExceeded",
                    "ResourceExhausted", "RetryError"}
  \/ exc.phrases \cap {"dns resolution failed", "could not contact dns servers",
                       "statuscode.unavailable", "deadline exceeded", "timed out",
                       "temporarily unavailable"} # {}

\* the retry counts of iter_collection_docs add up: every failure that did
\* not end the scan cost one retry, on the current page and on every page
\* read before, and no page fails more than max_retries + 1 times
RetryCounts ==
  /\ pfails <= max_retries + 1
  /\ spc = "read" => Len(psleeps) = pfails /\ pfails <= max_retries
  /\ spc = "raised" => Len(psleeps) = pfails - 1
  /\ \A i \in 1..Len(pageLog) :
       /\ Len(pageLog[i].sleeps) = pageLog[i].fails
       /\ pageLog[i].fails <= max_retries

\* C13 (as claimed): in iter_collection_docs k consecutive transient failures
\* of one page, k <= max_retries, cost exactly k retries and the page's
\* documents are then yielded; only failure number max_retries + 1 of a page
\* propagates a transient error.
C13_TransientPageRetry ==
  scanner = "backfill" =>
    /\ RetryCounts
    /\ (spc = "raised" /\ Transient(lastExc)) => pfails = max_retries + 1

\* C13, the part that holds: the same for the errors that
\* is_retryable_stream_error accepts.
C13_RetryablePageRetry ==
  scanner = "backfill" =>
    /\ RetryCounts
    /\ (spc = "raised" /\ is_retryable_stream_error(lastExc)) =>
         pfails = max_retries + 1

\* C15 (as claimed): the page-read retry of iter_collection_docs retries
\* every unavailable, deadline-exceeded, resource-exhausted and RetryError
\* error and every error with a DNS or timeout phrase, up to the bound, and
\* raises an error of any other class at once: no error of another class is
\* ever followed by a sleep and a retry.
C15_RetryPredicate ==
  scanner = "backfill" =>
    /\ (spc = "raised" /\ Transient(lastExc)) => pfails = max_retries + 1
    /\ (spc = "read" /\ pfails > 0) => Transient(lastExc)

\* C17: both cursor scans yield keys in strictly increasing order (so no
\* document twice); a scan that ended has yielded every document that was in
\* the collection from its start to its end, whatever was inserted or
\* deleted between page reads; every page read but the last yields a
\* document, so that on an unchanging collection the scan ends after at most
\* one page read more than it holds documents, having yielded exactly the
\* collection in key order.
C17_CursorScan ==
  spc # "off" =>
    /\ \A i \in 1..(Len(yielded) - 1) : yielded[i] < yielded[i + 1]
    /\ spc = "done" => stable \subseteq {yielded[i] : i \in 1..Len(yielded)}
    /\ \A i \in 1..(Len(pageLog) - 1) : pageLog[i].docs # << >>
    /\ mutations = 0 => Len(pageLog) <= Cardinality(coll) + 1
    /\ (mutations = 0 /\ spc = "done") => yielded = Ascending(coll)

\* witness of C17: a scan of several pages ended after documents were
\* inserted and deleted, with a document that was there all along
C17_Witness ==
  /\ spc = "done" /\ mutations = MaxMut /\ Len(pageLog) >= 2
  /\ stable # {} /\ coll \ stable # {}
  /\ stable \subseteq {yielded[i] : i \in 1..Len(yielded)}

----------------------------------------------------------------------------
(* Claims about the retry loops (SpecMain, SpecScan) *)

\* C14 (as claimed), for the record writes of main._upsert_with_retry: the
\* loop makes at most Retries + 1 attempts, the sleep before retry number k
\* (from 0) is min(cap, base * 2^k), with the base 5 and the cap 60 of the
\* code, and the error of the last attempt ends the run.
C14_ExponentialBackoff ==
  pc # "off" =>
    /\ attempt <= Retries /\ Len(waits) = attempt
    /\ \A i \in 1..Len(waits) : waits[i] = Min(60, 5 * Pow2(i - 1))

\* C14, the part that holds: the page reads of both scans make a bounded
\* number of attempts, sleep min(30, 2^k) seconds (iter_collection_docs) and
\* 2 * 2^k seconds (iter_documents) before retry number k, and raise the
\* error of the last attempt.
C14_ScanBackoff ==
  spc # "off" =>
    /\ pfails <= (IF scanner = "backfill" THEN max_retries + 1 ELSE EqnetAttempts)
    /\ \A i \in 1..Len(psleeps) :
         psleeps[i] = IF scanner = "backfill" THEN Min(30, Pow2(i - 1))
                      ELSE 2 * Pow2(i - 1)
    /\ (spc = "raised" /\ Len(psleeps) = pfails - 1)
         \/ (spc # "raised" /\ Len(psleeps) = pfails)

----------------------------------------------------------------------------
(* The backfill runs: backfill.run_backfill and eqnet_backfill.run_backfill *)

\* what a document does to the loop body: build_updates returns updates
\* ("update"), returns none ("noop", backfill only: the updates of
\* eqnet_backfill always carry a new timestamp), raises ("error"), or the
\* document is already resolved ("skip", eqnet_backfill only, lines 428-434)
DocKinds(p) ==
  IF p = "backfill" THEN {"update", "noop", "error"}
  ELSE {"update", "error", "skip"}

\* mutant: the batch is committed once it holds more than batch_size updates
AddToBatchLate(n, size) ==
  IF n + 1 > size THEN [pending |-> 0, commit |-> n + 1]
  ELSE [pending |-> n + 1, commit |-> 0]

\* backfill.py lines 319-324, eqnet_backfill.py lines 461-466: the update
\* joins the batch of n updates, which is committed once it holds batch_size
\* updates; commit is the size of the batch committed, 0 for no commit
AddToBatch(n, size) ==
  IF n + 1 >= size THEN [pending |-> 0, commit |-> n + 1]
  ELSE [pending |-> n + 1, commit |-> 0]

\* the document makes the loop body write to the batch: build_updates
\* returned updates, or, in eqnet_backfill, raised (the error payload of lines
\* 446-450 is written)
Writes(p, kind) == kind = "update" \/ (p = "eqnet" /\ kind = "error")

\* the loop body reaches its check of the limit: in backfill.py the continue
\* of the except clause (line 315) jumps over it
ReachesLimitCheck(p, kind) == ~(p = "backfill" /\ kind = "error")

\* both programs reject a batch size outside 1..500
InitRun ==
  /\ CrawlOff /\ UpdOff /\ ScanOff /\ TextOff /\ LateOff
  /\ prog \in {"backfill", "eqnet"}
  /\ limit \in 0..MaxLimit
  /\ batch_size \in 1..MaxBatchSize
  /\ dry_run \in BOOLEAN
  /\ rdocs \in UNION {[1..n -> DocKinds(prog)] : n \in 0..MaxDocs}
  /\ total = 0 /\ updated = 0 /\ skipped = 0 /\ errors = 0
  /\ pending = 0 /\ commits = << >> /\ rpc = "loop"

\* one pass of the loop body on the next document of the scan; commitOk tells
\* whether the batch commit of this pass, if there is one, succeeds
ProcessDoc(commitOk) ==
  /\ rpc = "loop" /\ total < Len(rdocs)
  /\ LET kind == rdocs[total + 1]
         adds == Writes(prog, kind) /\ ~dry_run
         b == IF adds THEN AddToBatch(pending, batch_size)
              ELSE [pending |-> pending, commit |-> 0]
         reached == ReachesLimitCheck(prog, kind) /\ limit # 0 /\ total + 1 >= limit
     IN  /\ b.commit = 0 => commitOk
         /\ total' = total + 1
         /\ errors' = errors + (IF kind = "error" THEN 1 ELSE 0)
         /\ updated' = updated + (IF Writes(prog, kind) THEN 1 ELSE 0)
         /\ skipped' = skipped + (IF kind \in {"noop", "skip"} THEN 1 ELSE 0)
         /\ IF commitOk
            THEN /\ pending' = b.pending
                 /\ commits' = IF b.commit > 0 THEN Append(commits, b.commit)
                               ELSE commits
                 /\ rpc' = IF reached THEN "flush" ELSE "loop"
            ELSE /\ pending' = b.commit
                 /\ UNCHANGED commits
                 /\ rpc' = "raised"
  /\ UNCHANGED <<prog, limit, batch_size, dry_run, rdocs>>
  /\ UNCHANGED <<crawlVars, updVars, scanVars, textVars, lateVars>>

\* the scan has no more documents: the for loop ends
ScanEnds ==
  /\ rpc = "loop" /\ total = Len(rdocs)
  /\ rpc' = "flush"
  /\ UNCHANGED <<prog, limit, batch_size, dry_run, rdocs, total, updated, skipped,
                 errors, pending, commits>>
  /\ UNCHANGED <<crawlVars, updVars, scanVars, textVars, lateVars>>

\* a page read of the scan raises: the exception leaves run_backfill
ScanRaises ==
  /\ rpc = "loop"
  /\ rpc' = "raised"
  /\ UNCHANGED <<prog, limit, batch_size, dry_run, rdocs, total, updated, skipped,
                 errors, pending, commits>>
  /\ UNCHANGED <<crawlVars, updVars, scanVars, textVars, lateVars>>

\* backfill.py lines 333-334, eqnet_backfill.py lines 479-480: after the loop
\* the batch is committed if it holds an update, then the summary is printed
Flush(commitOk) ==
  /\ rpc = "flush"
  /\ IF ~dry_run /\ pending # 0
     THEN IF commitOk
          THEN commits' = Append(commits, pending) /\ rpc' = "done"
          ELSE UNCHANGED commits /\ rpc' = "raised"
     ELSE commitOk /\ UNCHANGED commits /\ rpc' = "done"
  /\ UNCHANGED <<prog, limit, batch_size, dry_run, rdocs, total, updated, skipped,
                 errors, pending>>
  /\ UNCHANGED <<crawlVars, updVars, scanVars, textVars, lateVars>>

NextRun ==
  \/ \E commitOk \in BOOLEAN : ProcessDoc(commitOk)
  \/ ScanEnds
  \/ ScanRaises
  \/ \E commitOk \in BOOLEAN : Flush(commitOk)

SpecRun == InitRun /\ [][NextRun]_vars

----------------------------------------------------------------------------
(* Claims about the backfill runs (SpecRun) and the crawl run (SpecMain) *)

RECURSIVE Sum(_)
Sum(seq) == IF seq = << >> THEN 0 ELSE Head(seq) + Sum(Tail(seq))

\* the documents of the given kinds among the first n of the scan
Taken(n, kinds) == Cardinality({i \in 1..n : rdocs[i] \in kinds})

\* C16: in a run that is not a dry run, between two documents the batch
\* holds fewer than batch_size updates and every batch committed in the loop
\* holds exactly batch_size; while no commit has failed, the committed and the
\* buffered updates add up to the updated count; and when the run ends
\* normally, by exhausting the scan or by reaching --limit, the committed
\* updates equal the reported updated count.
C16_BatchesCommitted ==
  (rpc # "off" /\ ~dry_run) =>
    /\ pending <= batch_size
    /\ rpc \in {"loop", "flush"} =>
         /\ pending < batch_size
         /\ Sum(commits) + pending = updated
         /\ \A i \in 1..Len(commits) : commits[i] = batch_size
    /\ rpc = "done" =>
         /\ Sum(commits) = updated
         /\ \A i \in 1..(Len(commits) - 1) : commits[i] = batch_size
         /\ updated = Taken(total, {"update"} \cup
                                   (IF prog = "eqnet" THEN {"error"} ELSE {}))

\* witness of C16: a run stopped by --limit before the end of the scan, after
\* a full batch, commits its partial batch
C16_Witness ==
  /\ rpc = "done" /\ ~dry_run
  /\ limit # 0 /\ total = limit /\ total < Len(rdocs)
  /\ Len(commits) = 2 /\ commits[2] < batch_size
  /\ Sum(commits) = updated

\* C19 (as claimed): with --limit N, N > 0, at most N documents are taken
\* from the scan and counted, whatever the documents do, the N-th raising an
\* error included.
C19_LimitStops ==
  (rpc # "off" /\ limit > 0) => total <= limit

\* C19, the part that holds: eqnet_backfill.run_backfill never takes more
\* than N documents, and backfill.run_backfill does not while no document
\* raises.
C19_LimitStopsWithoutError ==
  (rpc # "off" /\ limit > 0 /\ (prog = "eqnet" \/ Taken(total, {"error"}) = 0))
    => total <= limit

\* C18 (as claimed), for the crawl driver: a record whose write raised never
\* ends the run while records of the batch are left.
C18_RecordErrorNeverAborts ==
  (finished # << >> /\ finished[Len(finished)].status = "raised"
     /\ Len(finished) < Len(batch)) => pc # "aborted"

\* C18, the part that holds: in both backfill scans a document whose
\* build_updates raises is counted in errors and the loop goes on; only a
\* failing scan or commit ends the run abnormally.
C18_ScanErrorsCounted ==
  rpc # "off" =>
    /\ errors = Taken(total, {"error"})
    /\ (rpc = "loop" /\ total < Len(rdocs)) => ENABLED ProcessDoc(TRUE)

----------------------------------------------------------------------------
(* utils.clean_text *)

\* a string is a sequence of characters; an entity name with its semicolon
\* ("amp;", "nbsp;") is written as one element, so that "&amp;" is the two
\* elements "&", "amp;". "NBSP" is the no-break space U+00A0
TextChars == {"a", " ", "&", "amp;", "nbsp;"}

\* the character an entity name stands for
EntityChar == ("amp;" :> "&") @@ ("nbsp;" :> "NBSP")

RECURSIVE unescape(_)
\* html.unescape: one pass from the left, every "&" followed by an entity
\* name is replaced by the character; what it puts out is not read again
unescape(s) ==
  IF s = << >> THEN << >>
  ELSE IF Len(s) >= 2 /\ s[1] = "&" /\ s[2] \in DOMAIN EntityChar
       THEN <<EntityChar[s[2]]>> \o unescape(SubSeq(s, 3, Len(s)))
       ELSE <<s[1]>> \o unescape(Tail(s))

\* what \s matches and strip() removes
IsSpace(c) == c \in {" ", "NBSP"}

RECURSIVE DropSpaces(_)
DropSpaces(s) ==
  IF s # << >> /\ IsSpace(Head(s)) THEN DropSpaces(Tail(s)) ELSE s

RECURSIVE CollapseSpaces(_)
\* re.sub(r"\s+", " ", text)
CollapseSpaces(s) ==
  IF s = << >> THEN << >>
  ELSE IF IsSpace(Head(s)) THEN <<" ">> \o CollapseSpaces(DropSpaces(Tail(s)))
       ELSE <<Head(s)>> \o CollapseSpaces(Tail(s))

RECURSIVE DropTrailingSpaces(_)
DropTrailingSpaces(s) ==
  IF s # << >> /\ IsSpace(s[Len(s)])
  THEN DropTrailingSpaces(SubSeq(s, 1, Len(s) - 1)) ELSE s

\* text.strip()
Strip(s) == DropTrailingSpaces(DropSpaces(s))

\* clean_text
clean_text(v) ==
  IF v = << >> THEN << >> ELSE Strip(CollapseSpaces(unescape(v)))

InitText ==
  /\ CrawlOff /\ UpdOff /\ ScanOff /\ RunOff /\ LateOff
  /\ value \in UNION {[1..n -> TextChars] : n \in 0..MaxLen}
  /\ cleaned = << >>
  /\ tpc = "run"

\* clean_text applied to the string, then to its own result
Clean ==
  /\ tpc = "run" /\ Len(cleaned) < 2
  /\ cleaned' = Append(cleaned, clean_text(IF cleaned = << >> THEN value
                                           ELSE cleaned[Len(cleaned)]))
  /\ UNCHANGED <<value, tpc>>
  /\ UNCHANGED <<crawlVars, updVars, scanVars, runVars, lateVars>>

NextText == Clean

SpecText == InitText /\ [][NextText]_vars

----------------------------------------------------------------------------
(* Claims about clean_text (SpecText) *)

\* s holds an entity: an "&" followed by an entity name
HasEntity(s) ==
  \E i \in 1..(Len(s) - 1) : s[i] = "&" /\ s[i + 1] \in DOMAIN EntityChar

\* C20 (as claimed): clean_text(clean_text(s)) = clean_text(s) for every
\* string s, strings with an escaped ampersand followed by an entity name
\* included.
C20_Idempotent ==
  Len(cleaned) = 2 => cleaned[2] = cleaned[1]

\* C20, the part that holds: the second application changes nothing when
\* the first result holds no entity.
C20_IdempotentWithoutEntity ==
  (Len(cleaned) = 2 /\ ~HasEntity(cleaned[1])) => cleaned[2] = cleaned[1]

----------------------------------------------------------------------------
(* normalizer.normalize_equipment and the utils functions it calls.
   A text is a sequence of characters; the full-width delimiters are written
   "FW>" and "FW/", and the name of a prefecture is one element. *)

\* the variables a function call leaves alone, and their value in the
\* specifications of a function call
olderVars == <<crawlVars, updVars, scanVars, runVars, textVars, refVars>>
OlderOff == CrawlOff /\ UpdOff /\ ScanOff /\ RunOff /\ TextOff /\ RefOff

\* longest raw.category explored
MaxCat == 3

\* utils.PREFECTURES, in the order of the list
PREFECTURES ==
  <<"Hokkaido", "Aomori", "Iwate", "Miyagi", "Akita", "Yamagata", "Fukushima",
    "Ibaraki", "Tochigi", "Gunma", "Saitama", "Chiba", "Tokyo", "Kanagawa",
    "Niigata", "Toyama", "Ishikawa", "Fukui", "Yamanashi", "Nagano", "Gifu",
    "Shizuoka", "Aichi", "Mie", "Shiga", "Kyoto", "Osaka", "Hyogo", "Nara",
    "Wakayama", "Tottori", "Shimane", "Okayama", "Hiroshima", "Yamaguchi",
    "Tokushima", "Kagawa", "Ehime", "Kochi", "Fukuoka", "Saga", "Nagasaki",
    "Kumamoto", "Oita", "Miyazaki", "Kagoshima", "Okinawa">>

\* the region of the prefecture at position i of PREFECTURES (utils.REGION_MAP)
RegionAt(i) ==
  IF i = 1 THEN "Hokkaido"
  ELSE IF i <= 7 THEN "Tohoku"
  ELSE IF i <= 14 THEN "Kanto"
  ELSE IF i <= 24 THEN "Chubu"
  ELSE IF i <= 30 THEN "Kansai"
  ELSE IF i <= 35 THEN "Chugoku"
  ELSE IF i <= 39 THEN "Shikoku"
  ELSE IF i <= 46 THEN "Kyushu"
  ELSE "Okinawa"

REGION_MAP ==
  [p \in {PREFECTURES[i] : i \in 1..Len(PREFECTURES)} |->
     RegionAt(CHOOSE i \in 1..Len(PREFECTURES) : PREFECTURES[i] = p)]

\* resolve_region
resolve_region(prefecture) ==
  IF prefecture = << >> THEN << >>
  ELSE IF Len(prefecture) = 1 /\ prefecture[1] \in DOMAIN REGION_MAP
       THEN <<REGION_MAP[prefecture[1]]>>
       ELSE << >>

\* guess_prefecture: the first prefecture of the list that occurs in the text
guess_prefecture(text) ==
  LET found == {i \in 1..Len(PREFECTURES) :
                  \E j \in 1..Len(text) : text[j] = PREFECTURES[i]}
  IN  IF found = {} THEN << >>
      ELSE <<PREFECTURES[CHOOSE i \in found : \A k \in found : i <= k]>>

\* mutant: the text is split at the first occurrence of sep only
RECURSIVE SplitOnFirst(_, _)
SplitOnFirst(text, sep) ==
  LET at == {i \in 1..Len(text) : text[i] = sep}
  IN  IF at = {} THEN <<text>>
      ELSE LET i == CHOOSE x \in at : \A y \in at : x <= y
           IN  <<SubSeq(text, 1, i - 1), SubSeq(text, i + 1, Len(text))>>

RECURSIVE SplitOn(_, _)
\* category.split(sep): the segments between the occurrences of sep
SplitOn(text, sep) ==
  LET at == {i \in 1..Len(text) : text[i] = sep}
  IN  IF at = {} THEN <<text>>
      ELSE LET i == CHOOSE x \in at : \A y \in at : x <= y
           IN  <<SubSeq(text, 1, i - 1)>> \o SplitOn(SubSeq(text, i + 1, Len(text)), sep)

\* the delimiters of split_category, in the order it tries them
Separators == <<">", "FW>", "/", "FW/">>

NonBlank(t) == Strip(t) # << >>

\* lines 20-24: the trimmed non-blank segments of the split at sep
SplitParts(category, sep) ==
  LET segs == SelectSeq(SplitOn(category, sep), NonBlank)
  IN  [i \in 1..Len(segs) |-> Strip(segs[i])]

RECURSIVE SplitFrom(_, _)
\* the loop of split_category from the delimiter at position k on
SplitFrom(category, k) ==
  IF k > Len(Separators) THEN [general |-> Strip(category), detail |-> << >>]
  ELSE LET sep == Separators[k]
           parts == SplitParts(category, sep)
       IN  IF (\E i \in 1..Len(category) : category[i] = sep) /\ parts # << >>
           THEN [general |-> parts[1],
                 detail |-> IF Len(parts) > 1 THEN parts[2] ELSE << >>]
           ELSE SplitFrom(category, k + 1)

\* split_category
split_category(category) ==
  IF category = << >> THEN [general |-> << >>, detail |-> << >>]
  ELSE SplitFrom(category, 1)

RECURSIVE JoinBar(_)
\* "|".join(texts)
JoinBar(texts) ==
  IF texts = << >> THEN << >>
  ELSE IF Len(texts) = 1 THEN texts[1]
  ELSE texts[1] \o <<"|">> \o JoinBar(Tail(texts))

\* hashlib.sha1(base).hexdigest(): a non-empty string, taken to be different
\* for different base strings
sha1_hexdigest(base) == <<"sha1">> \o base

NonEmptyText(t) == t # << >>

\* compute_dedupe_key: the parts that are not empty are cleaned and joined
compute_dedupe_key(parts) ==
  LET kept == SelectSeq(parts, NonEmptyText)
      base == JoinBar([i \in 1..Len(kept) |-> clean_text(kept[i])])
  IN  IF base = << >> THEN << >> ELSE sha1_hexdigest(base)

\* normalize_equipment, for the fields the category, the prefecture and the
\* dedupe key depend on (the other fields are copied or classified from one
\* raw field each); region is not among the arguments of the EquipmentRecord
\* built at lines 62-79 and keeps its default, the empty string
normalize_equipment(raw) ==
  LET split == IF raw.category_general = << >>
               THEN split_category(raw.category)
               ELSE [general |-> raw.category_general,
                     detail |-> raw.category_detail]
      prefecture == IF raw.prefecture # << >> THEN raw.prefecture
                    ELSE guess_prefecture(IF raw.address_raw # << >>
                                          THEN raw.address_raw ELSE raw.org_name)
  IN  [name |-> raw.name,
       category_general |-> split.general,
       category_detail |-> split.detail,
       org_name |-> raw.org_name,
       prefecture |-> prefecture,
       region |-> << >>,
       address_raw |-> raw.address_raw,
       dedupe_key |-> compute_dedupe_key(<<raw.org_name, raw.name, split.general>>)]

CategoryChars == {"x", " ", ">", "FW>", "/", "FW/"}

\* the raw records normalize_equipment is given
RawRecords ==
  [name : {<<"n">>},
   org_name : {<< >>, <<"u">>, <<"Tokyo", "u">>},
   category : UNION {[1..n -> CategoryChars] : n \in 0..MaxCat},
   category_general : {<< >>, <<"g">>},
   category_detail : {<< >>, <<"d">>},
   prefecture : {<< >>, <<"Osaka">>},
   address_raw : {<< >>, <<"Kyoto", "z">>}]

InitNormalize ==
  /\ OlderOff
  /\ args \in RawRecords
  /\ ret = << >>
  /\ called = FALSE

Normalize ==
  /\ ~called
  /\ ret' = normalize_equipment(args)
  /\ called' = TRUE
  /\ UNCHANGED <<args, olderVars>>

NextNormalize == Normalize

SpecNormalize == InitNormalize /\ [][NextNormalize]_vars

----------------------------------------------------------------------------
(* Claims about normalize_equipment on one raw record. *)

\* C24: the region of the record normalize_equipment returns is the
\* REGION_MAP region of the record's prefecture, so a record with a known
\* prefecture (supplied or inferred) has a non-empty region.
C24_RegionOfPrefecture ==
  called =>
    /\ ret.region = resolve_region(ret.prefecture)
    /\ (ret.prefecture # << >> /\ ret.prefecture[1] \in DOMAIN REGION_MAP
          => ret.region # << >>)

\* what does hold: the record carries the prefecture (supplied, else the first
\* prefecture named in the address, else in the org name) and an empty region
C24_PrefectureOnly ==
  called =>
    /\ ret.region = << >>
    /\ ret.prefecture =
         (IF args.prefecture # << >> THEN args.prefecture
          ELSE guess_prefecture(IF args.address_raw # << >>
                                THEN args.address_raw ELSE args.org_name))

Delimiters == {Separators[k] : k \in 1..Len(Separators)}

\* the least element of a non-empty set of numbers
Least(S) == CHOOSE x \in S : \A y \in S : x <= y

\* C27 as stated: without a supplied category_general, raw.category is split
\* at its leftmost delimiter: category_general is the trimmed text before it,
\* category_detail the trimmed segment after it; a category without delimiter
\* is the category_general, with an empty detail; a supplied category_general
\* is not split.
C27_SplitAtLeftmost ==
  called =>
    IF args.category_general # << >>
    THEN /\ ret.category_general = args.category_general
         /\ ret.category_detail = args.category_detail
    ELSE LET c == args.category
             at == {i \in 1..Len(c) : c[i] \in Delimiters}
         IN  IF at = {}
             THEN ret.category_general = Strip(c) /\ ret.category_detail = << >>
             ELSE LET i == Least(at)
                      after == {j \in at : j > i}
                      next == IF after = {} THEN Len(c) + 1 ELSE Least(after)
                  IN  /\ ret.category_general = Strip(SubSeq(c, 1, i - 1))
                      /\ ret.category_detail = Strip(SubSeq(c, i + 1, next - 1))

\* the non-blank maximal runs of text without sep, as <<first, last>>
Runs(text, sep) ==
  {r \in (1..Len(text)) \X (1..Len(text)) :
     /\ r[1] <= r[2]
     /\ \A k \in r[1]..r[2] : text[k] # sep
     /\ r[1] = 1 \/ text[r[1] - 1] = sep
     /\ r[2] = Len(text) \/ text[r[2] + 1] = sep
     /\ Strip(SubSeq(text, r[1], r[2])) # << >>}

\* C27, amended: the delimiter is the first of >, FW>, /, FW/ (in this order)
\* that occurs in the category and leaves a non-blank segment; the category is
\* split at every occurrence of it, category_general is the first non-blank
\* segment and category_detail the second (empty if there is none), both
\* trimmed; without such a delimiter category_general is the trimmed category.
C27_SplitByPriority ==
  called =>
    IF args.category_general # << >>
    THEN /\ ret.category_general = args.category_general
         /\ ret.category_detail = args.category_detail
    ELSE LET c == args.category
             usable == {k \in 1..Len(Separators) :
                          /\ \E i \in 1..Len(c) : c[i] = Separators[k]
                          /\ Runs(c, Separators[k]) # {}}
         IN  IF usable = {}
             THEN ret.category_general = Strip(c) /\ ret.category_detail = << >>
             ELSE LET runs == Runs(c, Separators[Least(usable)])
                      first == CHOOSE r \in runs : \A q \in runs : r[1] <= q[1]
                      rest == runs \ {first}
                  IN  /\ ret.category_general = Strip(SubSeq(c, first[1], first[2]))
                      /\ ret.category_detail =
                           (IF rest = {} THEN << >>
                            ELSE LET second == CHOOSE r \in rest :
                                                 \A q \in rest : r[1] <= q[1]
                                 IN  Strip(SubSeq(c, second[1], second[2])))

\* a category holding / before >: it is split at >
C27_Witness ==
  /\ called
  /\ args.category_general = << >>
  /\ args.category = <<"/", ">", "x">>
  /\ ret.category_general = <<"/">>
  /\ ret.category_detail = <<"x">>

----------------------------------------------------------------------------
(* normalize_equipment on two raw records: the dedupe keys compared. *)

\* longest org_name, name and category_general explored
MaxPart == 1

PartChars == {"a", " "}

PartTexts == UNION {[1..n -> PartChars] : n \in 0..MaxPart}

\* the raw records of the comparison
RawParts ==
  [name : PartTexts,
   org_name : PartTexts,
   category : {<< >>, <<"a">>},
   category_general : PartTexts,
   category_detail : {<< >>},
   prefecture : {<< >>},
   address_raw : {<< >>}]

InitDedupe ==
  /\ OlderOff
  /\ args \in RawParts \X RawParts
  /\ ret = << >>
  /\ called = FALSE

NormalizeBoth ==
  /\ ~called
  /\ ret' = <<normalize_equipment(args[1]), normalize_equipment(args[2])>>
  /\ called' = TRUE
  /\ UNCHANGED <<args, olderVars>>

NextDedupe == NormalizeBoth

SpecDedupe == InitDedupe /\ [][NextDedupe]_vars

\* the parts of the dedupe key of a normalized record, and their cleaned form
Triple(rec) == <<rec.org_name, rec.name, rec.category_general>>
CleanedTriple(rec) ==
  <<clean_text(rec.org_name), clean_text(rec.name), clean_text(rec.category_general)>>

\* C21: two raw records whose org_name, name and derived category_general are
\* pairwise equal after clean_text get the same dedupe_key, a part that is
\* empty in one and whitespace-only in the other included; the key is the
\* empty string when all parts are empty.
C21_KeyOfCleanedParts ==
  called =>
    /\ CleanedTriple(ret[1]) = CleanedTriple(ret[2])
         => ret[1].dedupe_key = ret[2].dedupe_key
    /\ Triple(ret[1]) = <<<< >>, << >>, << >>>> => ret[1].dedupe_key = << >>

\* what does hold: the key is a function of the parts as given, and is empty
\* when they are all empty
C21_KeyOfRawParts ==
  called =>
    /\ Triple(ret[1]) = Triple(ret[2]) => ret[1].dedupe_key = ret[2].dedupe_key
    /\ Triple(ret[1]) = <<<< >>, << >>, << >>>> => ret[1].dedupe_key = << >>

\* C30: two records whose (org_name, name, category_general) differ after
\* clean_text have different pre-hash strings, hence different dedupe keys.
C30_KeyInjective ==
  called =>
    (CleanedTriple(ret[1]) # CleanedTriple(ret[2])
       => ret[1].dedupe_key # ret[2].dedupe_key)

----------------------------------------------------------------------------
(* utils.build_search_tokens and utils.build_search_aliases.
   A character outside ASCII is written by its code point: "U3042" is the
   hiragana letter a. *)

\* most tokens build_search_tokens collects before it stops reading values
TokenCap == 80

\* longest run of hiragana explored
MaxRun == 42
\* longest other value explored
MaxText == 2

LowerCase ==
  <<"a", "b", "c", "d", "e", "f", "g", "h", "i", "j", "k", "l", "m", "n",
    "o", "p", "q", "r", "s", "t", "u", "v", "w", "x", "y", "z">>

UpperCase ==
  <<"A", "B", "C", "D", "E", "F", "G", "H", "I", "J", "K", "L", "M", "N",
    "O", "P", "Q", "R", "S", "T", "U", "V", "W", "X", "Y", "Z">>

DigitChars == {"0", "1", "2", "3", "4", "5", "6", "7", "8", "9"}

\* the first hiragana letters, from U+3041 on
HiraganaChars ==
  <<"U3041", "U3042", "U3043", "U3044", "U3045", "U3046", "U3047", "U3048",
    "U3049", "U304A", "U304B", "U304C", "U304D", "U304E", "U304F", "U3050",
    "U3051", "U3052", "U3053", "U3054", "U3055", "U3056", "U3057", "U3058",
    "U3059", "U305A", "U305B", "U305C", "U305D", "U305E", "U305F", "U3060",
    "U3061", "U3062", "U3063", "U3064", "U3065", "U3066", "U3067", "U3068",
    "U3069", "U306A", "U306B", "U306C", "U306D">>

\* the kana and kanji of NORMALIZED_KEYWORDS and of the examples
KeywordScript ==
  {"U30A8", "U30AC", "U30AF", "U30B0", "U30B9", "U30C8", "U30D5", "U30DE",
   "U30E9", "U30EA", "U30ED", "U30FC", "U4F53", "U5149", "U5171", "U5206",
   "U529B", "U539F", "U56DE", "U578B", "U5909", "U5916", "U5B50", "U5B9A",
   "U5FAE", "U6298", "U63DB", "U6790", "U67FB", "U6838", "U6C17", "U6CD5",
   "U6DB2", "U6E2C", "U78C1", "U7DDA", "U7F6E", "U88C5", "U8CEA", "U8D64",
   "U8D70", "U900F", "U904E", "U91CF", "U93E1", "U9593", "U96FB", "U9855",
   "U9CF4"}

Elements(s) == {s[i] : i \in 1..Len(s)}

\* str.lower
LowerChar(c) ==
  IF \E i \in 1..Len(UpperCase) : UpperCase[i] = c
  THEN LowerCase[CHOOSE i \in 1..Len(UpperCase) : UpperCase[i] = c]
  ELSE c

lower(text) == [i \in 1..Len(text) |-> LowerChar(text[i])]

\* the character classes of TOKEN_PATTERN and KEYWORD_NORMALIZE_PATTERN
IsAlnum(c) == c \in Elements(LowerCase) \cup Elements(UpperCase) \cup DigitChars
IsScript(c) == c \in Elements(HiraganaChars) \cup KeywordScript
CharClass(c) ==
  IF IsAlnum(c) THEN "alnum" ELSE IF IsScript(c) THEN "script" ELSE "other"

\* the end of the longest run of one class that starts at position i
RunEnd(text, i) ==
  CHOOSE j \in i..Len(text) :
    /\ \A k \in i..j : CharClass(text[k]) = CharClass(text[i])
    /\ j = Len(text) \/ CharClass(text[j + 1]) # CharClass(text[i])

RECURSIVE FindAllFrom(_, _)
FindAllFrom(text, i) ==
  IF i > Len(text) THEN << >>
  ELSE IF CharClass(text[i]) = "other" THEN FindAllFrom(text, i + 1)
  ELSE <<SubSeq(text, i, RunEnd(text, i))>> \o FindAllFrom(text, RunEnd(text, i) + 1)

\* TOKEN_PATTERN.findall(text): the runs of alphanumerics and the runs of
\* Japanese script, from left to right
TOKEN_PATTERN_findall(text) == FindAllFrom(text, 1)

\* add_token applied to each of toks in turn: a token is appended unless it is
\* empty or already in the list, so the result is the first occurrence of
\* each non-empty element of tokens \o toks, in order
add_token(tokens, toks) ==
  LET all == tokens \o toks
      keep == {i \in 1..Len(all) :
                 all[i] # << >> /\ \A j \in 1..(i - 1) : all[j] # all[i]}
      rank == [i \in keep |-> Cardinality({j \in keep : j <= i})]
  IN  [k \in 1..Cardinality(keep) |-> all[CHOOSE i \in keep : rank[i] = k]]

\* lines 230-231: the substrings of the given size, from left to right
NGrams(compact, size) ==
  [at \in 1..(IF Len(compact) >= size THEN Len(compact) - size + 1 ELSE 0) |->
     SubSeq(compact, at, at + size - 1)]

NotBlankChar(c) == c # " "

\* lines 226-231: what is passed to add_token for one match: the match, and
\* its 2-grams and 3-grams if it holds Japanese script
MatchTokens(match) ==
  LET compact == SelectSeq(match, NotBlankChar)
  IN  IF \E i \in 1..Len(match) : IsScript(match[i])
      THEN <<match>> \o NGrams(compact, 2) \o NGrams(compact, 3)
      ELSE <<match>>

RECURSIVE AddMatches(_, _)
AddMatches(tokens, matches) ==
  IF matches = << >> THEN tokens
  ELSE AddMatches(add_token(tokens, MatchTokens(Head(matches))), Tail(matches))

RECURSIVE TokensFrom(_, _, _)
\* the loop over the values from position k on: the length of the list is
\* looked at once a value has been tokenized (lines 232-233)
TokensFrom(values, k, tokens) ==
  IF k > Len(values) THEN tokens
  ELSE LET text == lower(clean_text(values[k]))
           after == AddMatches(tokens, TOKEN_PATTERN_findall(text))
       IN  IF text = << >> THEN TokensFrom(values, k + 1, tokens)
           ELSE IF Len(after) > TokenCap THEN after
           ELSE TokensFrom(values, k + 1, after)

\* build_search_tokens
build_search_tokens(values) == TokensFrom(values, 1, << >>)

TokenChars == {"a", "B", " ", "U3041", "U3042"}

\* the values explored: short texts, and the two longest runs of distinct
\* hiragana
TokenValues ==
  UNION {[1..n -> TokenChars] : n \in 0..MaxText}
    \cup {SubSeq(HiraganaChars, 1, n) : n \in (MaxRun - 1)..MaxRun}

InitTokens ==
  /\ OlderOff
  /\ args \in {<<v>> : v \in TokenValues} \cup (TokenValues \X TokenValues)
  /\ ret = << >>
  /\ called = FALSE

BuildTokens ==
  /\ ~called
  /\ ret' = build_search_tokens(args)
  /\ called' = TRUE
  /\ UNCHANGED <<args, olderVars>>

NextTokens == BuildTokens

SpecTokens == InitTokens /\ [][NextTokens]_vars

\* C22: build_search_tokens never returns more than 80 tokens, whatever the
\* number of values and their lengths.
C22_AtMostCap == called => Len(ret) <= TokenCap

\* what does hold: the tokens are non-empty and distinct, and values are read
\* only while at most 80 tokens have been collected
C22_DistinctTokens ==
  called =>
    /\ \A i \in 1..Len(ret) : ret[i] # << >>
    /\ \A i, j \in 1..Len(ret) : ret[i] = ret[j] => i = j
    /\ (Len(args) = 2 /\ Len(build_search_tokens(<<args[1]>>)) > TokenCap
          => ret = build_search_tokens(<<args[1]>>))

----------------------------------------------------------------------------
(* utils.build_search_aliases. *)

\* longest value explored
MaxAlias == 3

\* utils.NORMALIZED_KEYWORDS, in the order of the dict
NORMALIZED_KEYWORDS ==
  <<
    [key |-> <<"x", "r", "d">>,
     terms |-> <<<<"x", "r", "d">>,
                 <<"x", "U7DDA", "U56DE", "U6298">>,
                 <<"x", "U7DDA", "U56DE", "U6298", "U88C5", "U7F6E">>,
                 <<"x", "U7DDA", "U56DE", "U6298", "U6E2C", "U5B9A">>,
                 <<"x", "-", "r", "a", "y", " ", "d", "i", "f", "f", "r", "a", "c", "t", "i", "o", "n">>,
                 <<"x", "r", "a", "y", " ", "d", "i", "f", "f", "r", "a", "c", "t", "i", "o", "n">>,
                 <<"x", "-", "r", "a", "y", " ", "d", "i", "f", "f", "r", "a", "c", "t", "o", "m", "e", "t", "e", "r">>,
                 <<"x", "r", "a", "y", " ", "d", "i", "f", "f", "r", "a", "c", "t", "o", "m", "e", "t", "e", "r">>>>],
    [key |-> <<"s", "e", "m">>,
     terms |-> <<<<"s", "e", "m">>,
                 <<"U8D70", "U67FB", "U578B", "U96FB", "U5B50", "U9855", "U5FAE", "U93E1">>,
                 <<"U8D70", "U67FB", "U96FB", "U5B50", "U9855", "U5FAE", "U93E1">>>>],
    [key |-> <<"t", "e", "m">>,
     terms |-> <<<<"t", "e", "m">>,
                 <<"U900F", "U904E", "U578B", "U96FB", "U5B50", "U9855", "U5FAE", "U93E1">>,
                 <<"U900F", "U904E", "U96FB", "U5B50", "U9855", "U5FAE", "U93E1">>>>],
    [key |-> <<"x", "p", "s">>,
     terms |-> <<<<"x", "p", "s">>,
                 <<"x", "U7DDA", "U5149", "U96FB", "U5B50", "U5206", "U5149">>,
                 <<"x", "U7DDA", "U5149", "U96FB", "U5B50", "U5206", "U5149", "U6CD5">>>>],
    [key |-> <<"n", "m", "r">>,
     terms |-> <<<<"n", "m", "r">>,
                 <<"U6838", "U78C1", "U6C17", "U5171", "U9CF4">>,
                 <<"U6838", "U78C1", "U6C17", "U5171", "U9CF4", "U88C5", "U7F6E">>>>],
    [key |-> <<"f", "t", "i", "r">>,
     terms |-> <<<<"f", "t", "i", "r">>,
                 <<"U30D5", "U30FC", "U30EA", "U30A8", "U5909", "U63DB", "U8D64", "U5916", "U5206", "U5149">>,
                 <<"U30D5", "U30FC", "U30EA", "U30A8", "U5909", "U63DB", "U8D64", "U5916", "U5206", "U5149", "U6CD5">>>>],
    [key |-> <<"a", "f", "m">>,
     terms |-> <<<<"a", "f", "m">>,
                 <<"U539F", "U5B50", "U9593", "U529B", "U9855", "U5FAE", "U93E1">>>>],
    [key |-> <<"l", "c", "m", "s">>,
     terms |-> <<<<"l", "c", "m", "s">>,
                 <<"U6DB2", "U4F53", "U30AF", "U30ED", "U30DE", "U30C8", "U30B0", "U30E9", "U30D5", "U8CEA", "U91CF", "U5206", "U6790">>,
                 <<"U6DB2", "U30AF", "U30ED", "U8CEA", "U91CF", "U5206", "U6790">>>>],
    [key |-> <<"g", "c", "m", "s">>,
     terms |-> <<<<"g", "c", "m", "s">>,
                 <<"U30AC", "U30B9", "U30AF", "U30ED", "U30DE", "U30C8", "U30B0", "U30E9", "U30D5", "U8CEA", "U91CF", "U5206", "U6790">>,
                 <<"U30AC", "U30B9", "U30AF", "U30ED", "U8CEA", "U91CF", "U5206", "U6790">>>>]
  >>

KeptChar(c) == IsAlnum(c) \/ IsScript(c)

\* normalize_keyword_text: cleaned, lower-cased, and every character that is
\* neither alphanumeric nor Japanese script removed
normalize_keyword_text(v) == SelectSeq(lower(clean_text(v)), KeptChar)

RECURSIVE JoinSpace(_)
\* " ".join(texts)
JoinSpace(texts) ==
  IF texts = << >> THEN << >>
  ELSE IF Len(texts) = 1 THEN texts[1]
  ELSE texts[1] \o <<" ">> \o JoinSpace(Tail(texts))

\* term in base, for strings
IsSubstring(term, base) ==
  \E i \in 1..(Len(base) - Len(term) + 1) : SubSeq(base, i, i + Len(term) - 1) = term

\* lines 244-252: the normalized tokens of all the values
AliasTokens(values) ==
  {tok \in {normalize_keyword_text(m) :
              m \in UNION {Elements(TOKEN_PATTERN_findall(lower(clean_text(values[i])))) :
                             i \in 1..Len(values)}} :
     tok # << >>}

\* mutant: a short term is looked for inside the base text too
AliasHitSubstring(term, base, tokens) ==
  LET normalized == normalize_keyword_text(term)
  IN  Len(normalized) > 1 /\ IsSubstring(normalized, base)

\* lines 259-266: the term makes its key an alias
AliasHit(term, base, tokens) ==
  LET normalized == normalize_keyword_text(term)
  IN  /\ Len(normalized) > 1
      /\ IF Len(normalized) <= 3 THEN normalized \in tokens
         ELSE IsSubstring(normalized, base)

\* build_search_aliases: the keys with a term that hits, in the order of the
\* dict, each once
build_search_aliases(values) ==
  LET base == normalize_keyword_text(JoinSpace(SelectSeq(values, NonEmptyText)))
      tokens == AliasTokens(values)
      Hits(entry) ==
        \E term \in {entry.key} \cup Elements(entry.terms) : AliasHit(term, base, tokens)
      entries == SelectSeq(NORMALIZED_KEYWORDS, Hits)
  IN  IF base = << >> THEN << >>
      ELSE [k \in 1..Len(entries) |-> entries[k].key]

XRD_measuring_device == <<"X", "R", "D", "U6E2C", "U5B9A", "U88C5", "U7F6E">>

measurement == <<"U6E2C", "U5B9A">>

\* sem inside a longer word, and a key of four letters written in two words
semi == <<"s", "e", "m", "i">>
gc_ms == <<"g", "c", " ", "m", "s">>


AliasChars == {"s", "E", "m", "g", "c", " "}

AliasTexts(n) == UNION {[1..k -> AliasChars] : k \in 0..n}

\* the argument lists explored: one value, or two short ones
AliasArgs ==
  {<<v>> : v \in AliasTexts(MaxAlias)
                   \cup {XRD_measuring_device, measurement, semi, gc_ms}}
    \cup (AliasTexts(MaxAlias - 2) \X AliasTexts(MaxAlias - 2))
    \cup {<<SubSeq(gc_ms, 1, 2), SubSeq(gc_ms, 4, 5)>>}

InitAliases ==
  /\ OlderOff
  /\ args \in AliasArgs
  /\ ret = << >>
  /\ called = FALSE

BuildAliases ==
  /\ ~called
  /\ ret' = build_search_aliases(args)
  /\ called' = TRUE
  /\ UNCHANGED <<args, olderVars>>

NextAliases == BuildAliases

SpecAliases == InitAliases /\ [][NextAliases]_vars

\* the variants of a key: the key and its terms, normalized
Variants(entry) ==
  {normalize_keyword_text(term) : term \in {entry.key} \cup Elements(entry.terms)}

\* the lower-cased runs of alphanumerics or of Japanese script of the values
InputTokens(values) ==
  UNION {Elements(TOKEN_PATTERN_findall(lower(clean_text(values[i])))) :
           i \in 1..Len(values)}

\* C23: a key is emitted exactly when one of its variants longer than 3
\* characters is a substring of the normalized concatenation of the values, or
\* one of its variants of at most 3 characters is one of the input tokens;
\* each key is emitted at most once; so sem is not emitted for "semi", XRD and
\* four kanji give xrd, and two kanji alone give nothing.
C23_AliasesExact ==
  called =>
    LET concat == normalize_keyword_text(JoinSpace(args))
    IN  /\ \A k \in 1..Len(NORMALIZED_KEYWORDS) :
             NORMALIZED_KEYWORDS[k].key \in Elements(ret)
               <=> \E v \in Variants(NORMALIZED_KEYWORDS[k]) :
                     \/ Len(v) > 3 /\ IsSubstring(v, concat)
                     \/ Len(v) <= 3 /\ v \in InputTokens(args)
        /\ \A i, j \in 1..Len(ret) : ret[i] = ret[j] => i = j
        /\ args = <<XRD_measuring_device>> => ret = <<<<"x", "r", "d">>>>
        /\ args = <<measurement>> => ret = << >>
        /\ args = <<semi>> => ret = << >>

\* sem inside a longer run gives nothing, sem as a token gives sem
C23_Witness ==
  /\ called
  /\ \/ args = <<semi>> /\ ret = << >>
     \/ args = <<<<"s", "E", "m">>>> /\ ret = <<<<"s", "e", "m">>>>
     \/ args = <<gc_ms>> /\ ret = <<<<"g", "c", "m", "s">>>>

----------------------------------------------------------------------------
(* eqnet_backfill.score_candidate and the functions it calls. *)

\* longest name explored
MaxName == 2

\* unicodedata.normalize("NFKC", .) on the characters explored: the
\* full-width letter b (U+FF42) becomes b, the ideographic space a space
NFKCChar(c) ==
  IF c = "UFF42" THEN "b" ELSE IF c = "U3000" THEN " " ELSE c

NFKC(text) == [i \in 1..Len(text) |-> NFKCChar(text[i])]

\* line 133: the minus sign U+2212 becomes a hyphen
ReplaceMinus(c) == IF c = "U2212" THEN "-" ELSE c

\* the characters lines 134-135 of normalize_text keep
IsNormalChar(c) ==
  ~IsSpace(c) /\ (c \in Elements(LowerCase) \cup DigitChars \/ IsScript(c))

\* normalize_text
normalize_text(v) ==
  LET text == lower(NFKC(v))
      replaced == [i \in 1..Len(text) |-> ReplaceMinus(text[i])]
  IN  SelectSeq(replaced, IsNormalChar)

\* token_set: the tokens of at least two characters
token_set(v) ==
  {tok \in Elements(TOKEN_PATTERN_findall(lower(NFKC(v)))) : Len(tok) >= 2}

\* SequenceMatcher.find_longest_match on the whole of a and b: the longest
\* common block, the earliest in a and then the earliest in b among the longest
Blocks(a, b) ==
  {blk \in (1..Len(a)) \X (1..Len(b)) \X (1..Min(Len(a), Len(b))) :
     /\ blk[1] + blk[3] - 1 <= Len(a)
     /\ blk[2] + blk[3] - 1 <= Len(b)
     /\ SubSeq(a, blk[1], blk[1] + blk[3] - 1) = SubSeq(b, blk[2], blk[2] + blk[3] - 1)}

find_longest_match(a, b) ==
  CHOOSE blk \in Blocks(a, b) :
    \A o \in Blocks(a, b) :
      \/ blk[3] > o[3]
      \/ blk[3] = o[3] /\ blk[1] < o[1]
      \/ blk[3] = o[3] /\ blk[1] = o[1] /\ blk[2] <= o[2]

RECURSIVE Matches(_, _)
\* the total size of SequenceMatcher.get_matching_blocks: the longest block,
\* and the same to its left and to its right
Matches(a, b) ==
  IF Blocks(a, b) = {} THEN 0
  ELSE LET blk == find_longest_match(a, b)
       IN  blk[3]
             + Matches(SubSeq(a, 1, blk[1] - 1), SubSeq(b, 1, blk[2] - 1))
             + Matches(SubSeq(a, blk[1] + blk[3], Len(a)),
                       SubSeq(b, blk[2] + blk[3], Len(b)))

\* similarity: SequenceMatcher(None, a, b).ratio() = 2.0 * matches / length,
\* kept as the fraction num / den; 0.0 if a or b is empty
similarity(a, b) ==
  IF a = << >> \/ b = << >> THEN [num |-> 0, den |-> 1]
  ELSE [num |-> 2 * Matches(a, b), den |-> Len(a) + Len(b)]

\* int(ratio * weight)
IntOfProduct(ratio, weight) == (ratio.num * weight) \div ratio.den

\* mutant: the sum as it is
Uncapped(points) == points

\* line 191: min(100, .)
CapScore(points) == Min(MaxScore, points)

\* lines 164-172 and 175-184: the score of a pair of normalized strings, with
\* the points for equality, for containment, and the weight of the similarity
PairScore(a, b, equal, contained, weight) ==
  IF a # << >> /\ b # << >>
  THEN IF a = b THEN equal
       ELSE IF IsSubstring(a, b) \/ IsSubstring(b, a) THEN contained
       ELSE IntOfProduct(similarity(a, b), weight)
  ELSE 0

\* fetch_master_candidates, lines 240-247: an entry of the master list
MasterCandidate(id, name, affiliation) ==
  [id |-> id, name |-> Strip(name), affiliation |-> Strip(affiliation),
   normalized_name |-> normalize_text(Strip(name)),
   normalized_affiliation |-> normalize_text(Strip(affiliation)),
   tokens |-> token_set(Strip(name))]

\* score_candidate
score_candidate(name, org_name, candidate) ==
  LET candidate_name == Strip(candidate.name)
      candidate_affiliation == Strip(candidate.affiliation)
      normalized_name == normalize_text(name)
      normalized_candidate_name ==
        IF candidate.normalized_name # << >> THEN candidate.normalized_name
        ELSE normalize_text(candidate_name)
      normalized_org == normalize_text(org_name)
      normalized_affiliation ==
        IF candidate.normalized_affiliation # << >>
        THEN candidate.normalized_affiliation
        ELSE normalize_text(candidate_affiliation)
      name_score == PairScore(normalized_name, normalized_candidate_name, 72, 60, 55)
      name_exact == /\ normalized_name # << >>
                    /\ normalized_name = normalized_candidate_name
      org_score == PairScore(normalized_org, normalized_affiliation, 30, 26, 22)
      org_match == /\ normalized_org # << >> /\ normalized_affiliation # << >>
                   /\ \/ IsSubstring(normalized_org, normalized_affiliation)
                      \/ IsSubstring(normalized_affiliation, normalized_org)
      candidate_tokens == IF candidate.tokens # {} THEN candidate.tokens
                          ELSE token_set(candidate_name)
      token_overlap == Cardinality(token_set(name) \cap candidate_tokens)
      token_score == Min(12, token_overlap * 3)
  IN  [id |-> candidate.id,
       name |-> candidate_name,
       affiliation |-> candidate_affiliation,
       url |-> build_eqnet_url(candidate.id),
       score |-> CapScore(name_score + org_score + token_score),
       name_exact |-> name_exact,
       org_match |-> org_match]

NameChars == {"a", "B", "UFF42", " "}
NameTexts == UNION {[1..n -> NameChars] : n \in 0..MaxName}
\* org_name and affiliation: one missing, equal, contained, and only similar
OrgPairs ==
  {<<<< >>, <<"u">>>>, <<<<"u">>, << >>>>, <<<<"u">>, <<"u">>>>,
   <<<<"u">>, <<"u", "v">>>>, <<<<"u", "v">>, <<"v", "w">>>>}

\* a name of five words
five_words ==
  <<"a", "a", " ", "a", "b", " ", "b", "a", " ", "b", "b", " ", "a", "a", "a">>

ScoreArgs ==
  {[name |-> n, org_name |-> o[1], candidate |-> MasterCandidate("7", cn, o[2])] :
     n \in NameTexts, cn \in NameTexts, o \in OrgPairs}
    \cup {[name |-> five_words, org_name |-> o[1],
           candidate |-> MasterCandidate("7", five_words, o[2])] : o \in OrgPairs}

InitScore ==
  /\ OlderOff
  /\ args \in ScoreArgs
  /\ ret = << >>
  /\ called = FALSE

ScoreCandidate ==
  /\ ~called
  /\ ret' = score_candidate(args.name, args.org_name, args.candidate)
  /\ called' = TRUE
  /\ UNCHANGED <<args, olderVars>>

NextScore == ScoreCandidate

SpecScore == InitScore /\ [][NextScore]_vars

\* the integer part of weight * similarity(a, b)
FloorOfSimilarity(weight, a, b) ==
  CHOOSE q \in 0..weight :
    /\ q * similarity(a, b).den <= weight * similarity(a, b).num
    /\ (q + 1) * similarity(a, b).den > weight * similarity(a, b).num

\* the points of the claim for two normalized strings
ClaimedPoints(a, b, equal, contained, weight) ==
  IF a = << >> \/ b = << >> THEN 0
  ELSE IF a = b THEN equal
  ELSE IF IsSubstring(a, b) \/ IsSubstring(b, a) THEN contained
  ELSE FloorOfSimilarity(weight, a, b)

C25_WitnessSimilarity ==
  /\ called
  /\ args.name = <<"a", "B">>
  /\ args.candidate.name = <<"B", "a">>
  /\ args.org_name = << >>
  /\ args.candidate.affiliation = <<"u">>
  /\ ret.score = 27
  /\ ~ret.name_exact

----------------------------------------------------------------------------
(* eqnet_backfill.build_candidate_pool. *)

\* longest master list and largest max_pool explored
MaxMaster == 3
MaxPool == 2

\* line 274: the pool size used when max_pool is not positive
DefaultPool == 450

\* lines 264-265: the candidate is a direct match of the normalized name
IsDirect(normalized_name, candidate) ==
  /\ normalized_name # << >>
  /\ candidate.normalized_name # << >>
  /\ \/ IsSubstring(normalized_name, candidate.normalized_name)
     \/ IsSubstring(candidate.normalized_name, normalized_name)

\* line 269: the number of tokens the candidate shares with the name
Overlap(name_tokens, candidate) == Cardinality(name_tokens \cap candidate.tokens)

\* mutant: the token matches are left in the order of the master list
MasterOrder(seq) == seq

RECURSIVE InsertByOverlap(_, _)
\* x put behind every entry whose overlap is not lower than its own
InsertByOverlap(seq, x) ==
  IF seq = << >> THEN <<x>>
  ELSE IF Head(seq).overlap >= x.overlap
       THEN <<Head(seq)>> \o InsertByOverlap(Tail(seq), x)
       ELSE <<x>> \o seq

RECURSIVE SortByOverlapFrom(_, _, _)
SortByOverlapFrom(seq, k, sorted) ==
  IF k > Len(seq) THEN sorted
  ELSE SortByOverlapFrom(seq, k + 1, InsertByOverlap(sorted, seq[k]))

\* token_matches.sort(key=overlap, reverse=True): stable, highest first
SortByOverlap(seq) == SortByOverlapFrom(seq, 1, << >>)

\* seq[:n]
Take(seq, n) == SubSeq(seq, 1, Min(n, Len(seq)))

\* build_candidate_pool
build_candidate_pool(name, master_candidates, max_pool) ==
  LET normalized_name == normalize_text(name)
      name_tokens == token_set(name)
      DirectCandidate(c) == IsDirect(normalized_name, c)
      TokenCandidate(c) ==
        ~IsDirect(normalized_name, c) /\ Overlap(name_tokens, c) > 0
      direct_matches == SelectSeq(master_candidates, DirectCandidate)
      sharing == SelectSeq(master_candidates, TokenCandidate)
      token_matches ==
        SortByOverlap([i \in 1..Len(sharing) |->
                         [overlap |-> Overlap(name_tokens, sharing[i]),
                          candidate |-> sharing[i]]])
      pool_size == IF max_pool <= 0 THEN DefaultPool ELSE max_pool
      remaining == pool_size - Len(direct_matches)
      Candidates(matches) == [i \in 1..Len(matches) |-> matches[i].candidate]
  IN  IF direct_matches # << >>
      THEN IF remaining <= 0 THEN Take(direct_matches, pool_size)
           ELSE direct_matches \o Candidates(Take(token_matches, remaining))
      ELSE IF token_matches # << >>
           THEN Candidates(Take(token_matches, pool_size))
           ELSE Take(master_candidates, pool_size)

ab_cd == <<"a", "b", " ", "c", "d">>

\* the names of the master list: equal to ab_cd, contained in it, sharing two
\* tokens, sharing one token, sharing nothing
MasterNames ==
  {ab_cd, <<"a", "b">>, <<"c", "d", " ", "a", "b">>,
   <<"a", "b", " ", "e", "f">>, <<"e", "f">>}

PoolArgs ==
  [name : {<< >>, ab_cd, <<"a">>},
   master_candidates :
     UNION {{[i \in 1..n |-> MasterCandidate(ToString(100 + i), names[i], << >>)] :
               names \in [1..n -> MasterNames]} : n \in 0..MaxMaster},
   max_pool : -1..MaxPool]

InitPool ==
  /\ OlderOff
  /\ args \in PoolArgs
  /\ ret = << >>
  /\ called = FALSE

BuildPool ==
  /\ ~called
  /\ ret' = build_candidate_pool(args.name, args.master_candidates, args.max_pool)
  /\ called' = TRUE
  /\ UNCHANGED <<args, olderVars>>

NextPool == BuildPool

SpecPool == InitPool /\ [][NextPool]_vars

\* the positions of the master list whose candidate is direct, and those whose
\* candidate is not direct and shares a token with the name
DirectAt == {i \in 1..Len(args.master_candidates) :
               IsDirect(normalize_text(args.name), args.master_candidates[i])}
SharingAt == {i \in 1..Len(args.master_candidates) :
                /\ i \notin DirectAt
                /\ Overlap(token_set(args.name), args.master_candidates[i]) > 0}
PoolSize == IF args.max_pool <= 0 THEN 450 ELSE args.max_pool

\* ret[from..] holds Len(ret) - from + 1 of the token-sharing candidates, in
\* non-increasing order of overlap, none left out for one of lower overlap
TokenSharingFrom(from) ==
  LET OverlapOf(c) == Overlap(token_set(args.name), c)
      in == {ret[k] : k \in from..Len(ret)}
  IN  /\ \A k \in from..Len(ret) :
            \E i \in SharingAt : args.master_candidates[i] = ret[k]
      /\ \A k \in from..(Len(ret) - 1) : OverlapOf(ret[k]) >= OverlapOf(ret[k + 1])
      /\ \A i \in SharingAt :
            args.master_candidates[i] \notin in
              => \A c \in in : OverlapOf(c) >= OverlapOf(args.master_candidates[i])

\* the cap, the token-sharing pool and the fallback, as C26 states them
C26_Rest ==
  /\ Len(ret) <= PoolSize
  /\ DirectAt = {} /\ SharingAt # {}
       => /\ Len(ret) = Min(PoolSize, Cardinality(SharingAt))
          /\ TokenSharingFrom(1)
  /\ DirectAt = {} /\ SharingAt = {}
       => /\ ret = Take(args.master_candidates, PoolSize)
          /\ (args.master_candidates # << >> => ret # << >>)

\* C26 as stated: at most max_pool candidates (450 if max_pool <= 0); with a
\* direct candidate the pool is made of direct candidates; otherwise it is the
\* token-sharing candidates in non-increasing order of overlap; otherwise the
\* first max_pool entries of the master list, non-empty if the list is.
C26_DirectOnly ==
  called =>
    /\ C26_Rest
    /\ DirectAt # {}
         => \A k \in 1..Len(ret) :
              \E i \in DirectAt : args.master_candidates[i] = ret[k]

\* C26, amended: with a direct candidate the pool is the direct candidates in
\* master order, cut at max_pool, followed while there is room by the
\* token-sharing candidates in non-increasing order of overlap.
C26_DirectThenSharing ==
  called =>
    /\ C26_Rest
    /\ DirectAt # {}
         => LET nd == Min(PoolSize, Cardinality(DirectAt))
            IN  /\ Len(ret) = Min(PoolSize, Cardinality(DirectAt) + Cardinality(SharingAt))
                /\ \A k \in 1..nd :
                     \E i \in DirectAt :
                       /\ Cardinality({j \in DirectAt : j <= i}) = k
                       /\ ret[k] = args.master_candidates[i]
                /\ TokenSharingFrom(nd + 1)

\* a direct candidate, and room left for a candidate that only shares tokens
C26_Witness ==
  /\ called
  /\ args.name = ab_cd
  /\ args.max_pool = 2
  /\ Len(args.master_candidates) = 2
  /\ DirectAt = {2}
  /\ SharingAt = {1}
  /\ ret = <<args.master_candidates[2], args.master_candidates[1]>>

\* the candidates of the master list whose normalized name is the name's
ExactAt == {i \in 1..Len(args.master_candidates) :
              /\ normalize_text(args.name) # << >>
              /\ args.master_candidates[i].normalized_name = normalize_text(args.name)}

\* C29: if the master list holds a candidate whose normalized name equals the
\* non-empty normalized name of the record, the pool holds such a candidate,
\* for every max_pool >= 1.
C29_ExactInPool ==
  called /\ args.max_pool >= 1 /\ ExactAt # {}
    => \E i \in ExactAt : \E k \in 1..Len(ret) : ret[k] = args.master_candidates[i]

\* what does hold: the exact candidate is in the pool when fewer than max_pool
\* direct candidates come before it in the master list
C29_ExactInPoolWithRoom ==
  called /\ args.max_pool >= 1
    => \A i \in ExactAt :
         Cardinality({j \in DirectAt : j < i}) < args.max_pool
           => \E k \in 1..Len(ret) : ret[k] = args.master_candidates[i]

----------------------------------------------------------------------------
(* The query-based upsert_equipment and the indexed _upsert_with_index, run by
   one writer each on the same initial store and the same records. *)

\* most records in the batch
MaxRecs == 2

\* the records of the comparison
RefRecords ==
  {r \in EquipmentRecord : r.fee_note = "f1" /\ r.equipment_id \in {"", "e1"}}

\* the stores the runs start from: empty, or left by one earlier upsert
RefStores ==
  {EmptyStore} \cup {upsert_equipment(EmptyStore, r, "a1").store : r \in RefRecords}

RECURSIVE IndexPartitions(_, _, _, _)
IndexPartitions(idx, st, orgs, k) ==
  IF k > Len(orgs) THEN idx
  ELSE IndexPartitions(IndexPartition(idx, st, orgs[k]), st, orgs, k + 1)

\* _build_existing_index when every partition is read at the first attempt
\* (index_ready true)
_build_existing_index(st, recs) ==
  IndexPartitions(EmptyIndex, st, SortedOrgNames(recs), 1)

\* the id collection.document() hands out for the record at position k
RefAutoId(k) == "a" \o ToString(k + 1)

InitRefine ==
  /\ CrawlOff /\ UpdOff /\ ScanOff /\ RunOff /\ TextOff /\ CallOff
  /\ qstore \in RefStores
  /\ istore = qstore
  /\ records \in UNION {[1..n -> RefRecords] : n \in 1..MaxRecs}
  /\ rindex = _build_existing_index(qstore, records)
  /\ rnext = 1
  /\ decisions = << >>

\* the next record is upserted by both
UpsertBoth ==
  /\ rnext >= 1
  /\ rnext <= Len(records)
  /\ LET q == upsert_equipment(qstore, records[rnext], RefAutoId(rnext))
         i == _upsert_with_index(istore, records[rnext], rindex, TRUE, RefAutoId(rnext))
     IN  /\ qstore' = q.store
         /\ istore' = i.store
         /\ rindex' = i.index
         /\ decisions' = Append(decisions,
                                [query |-> [id |-> q.id, status |-> q.status],
                                 indexed |-> [id |-> i.id, status |-> i.status]])
  /\ rnext' = rnext + 1
  /\ UNCHANGED <<records, crawlVars, updVars, scanVars, runVars, textVars, callVars>>

NextRefine == UpsertBoth

SpecRefine == InitRefine /\ [][NextRefine]_vars

\* C28: for every record of the sequence the indexed upsert makes the same
\* created/updated decision and writes to the same document as the
\* query-based upsert.
C28_SameDecisions ==
  \A k \in 1..Len(decisions) : decisions[k].indexed = decisions[k].query
====
